---- MODULE Spec2Model ----
(***************************************************************************)
(* Model of oll-visual-tester's image comparison pipeline                   *)
(* (src/unnamed/part_001, the functions of functions/image-diff.js):        *)
(* readDir, getImageNames, compareImageDirectories, fileExists, diffImages, *)
(* createDiffImage and compareImages.                                       *)
(*                                                                          *)
(* One call of compareImages is modelled.  Every callback of the event loop *)
(* is one action: the synchronous code of the callback together with the    *)
(* promise reactions (microtasks) it triggers, which run before any other   *)
(* I/O callback.  The collaborators (fs, img-diff-js, join-images) are the  *)
(* environment: each operation the code starts is outstanding until one of  *)
(* its completion actions fires.                                            *)
(*                                                                          *)
(* Besides Spec (one call of compareImages) there are SpecMatcher (the      *)
(* matcher and the name functions on every pair of listings), SpecRace      *)
(* (several calls sharing the diff directory) and SpecFileExists (one       *)
(* existence wait, tick by tick), SpecTwice (the call repeated on the same  *)
(* directories), SpecGenerate (one call of generateImages) and SpecLister   *)
(* (one call on directories whose entries are in view) and SpecPercentage   *)
(* (one call on one image, over image sizes and pixel counts).              *)
(* SpecScreenshot follows one call of screenshot (functions/screenshot.js)  *)
(* from one Playwright operation to the next.                               *)
(*                                                                          *)
(* File names are sequences of one-character strings, so that the regular   *)
(* expressions and the split/splice/join of the code are computed.          *)
(***************************************************************************)
EXTENDS Integers, Sequences, FiniteSets, TLC

VARIABLES
    options,    \* the options object of the compareImages call
    pc,         \* position of the directory matcher: which fs callback is awaited
    listing,    \* filesBaseline and filesNew of compareImageDirectories while they
                \* are in scope (Null otherwise)
    files,      \* the MatchResult compareImageDirectories resolved with (Null before)
    jobs,       \* one record per diffImages call, in the order of files.compare
    disk,       \* the files that exist in the diff directory (set of paths)
    promise,    \* the promise compareImages returned: state and value
    settled,    \* indices of jobs in the order their diffImages promise settled
    wait,       \* the closure of one fileExists call: its OPTIONS, its `timer`,
                \* its interval and the fs.stat calls it issued (Null when the
                \* existence wait is not followed tick by tick)
    env,        \* what the call finds around it, when that is held fixed: the
                \* entries of the two directories and the verdict of the pixel
                \* differ for every image (Null when every listing and every
                \* verdict is the environment's choice of the moment)
    previous,   \* the value an earlier compareImages call on the same
                \* directories resolved with (Null when there was none)
    gen,        \* one generateImages call: its OPTIONS, the host figures it
                \* reads and its capture jobs (Null when none is followed)
    capture     \* one screenshot call: its OPTIONS, the Playwright operation
                \* it awaits, the operations it issued and completed, its
                \* browser and its promise (Null when none is followed)

vars == <<options, pc, listing, files, jobs, disk, promise, settled, wait,
          env, previous, gen, capture>>

-----------------------------------------------------------------------------
(* Values *)

\* JavaScript null; every nullable value of the model is a tuple.
Null == <<>>

\* Longest directory listing the model reads.
MaxEntries == 2

\* File names of the model's directories.
A_JPG == <<"a", ".", "j", "p", "g">>
A_PNG == <<"a", ".", "p", "n", "g">>
B_JPG == <<"b", ".", "J", "P", "G">>
C_TXT == <<"c", ".", "t", "x", "t">>
Names == {A_JPG, A_PNG, B_JPG, C_TXT}

\* What fs.readdir can yield: duplicate-free sequences of entry names.
Listings ==
    {l \in UNION {[1..n -> Names] : n \in 0..MaxEntries} :
        \A i, j \in 1..Len(l) : i # j => l[i] # l[j]}

\* Further entry names for the checks of the name functions alone: a name
\* that ends in the letters jpg without a dot, a name that ends in the word
\* "null", and a name with two dots.
AJPG == <<"a", "j", "p", "g">>
A_NULL == <<"a", ".", "n", "u", "l", "l">>
A_B_JPEG == <<"a", ".", "b", ".", "j", "p", "e", "g">>
MatcherNames == Names \cup {AJPG, A_NULL, A_B_JPEG}
MatcherListings ==
    {l \in UNION {[1..n -> MatcherNames] : n \in 0..MaxEntries} :
        \A i, j \in 1..Len(l) : i # j => l[i] # l[j]}

\* What the pixel differ reports for an image, beside the verdict.
ImageWidth == 800
ImageHeight == 600
DiffPixels == 3
TestImage == [width |-> ImageWidth, height |-> ImageHeight, diffCount |-> DiffPixels]

\* The environment left open: fs.readdir may yield any listing and the pixel
\* differ any verdict.  `absent` names the directory ("baseline" or "new")
\* whose images are removed once the pixel differ has read them, or "none".
AnyEnvironment ==
    [fixed |-> FALSE, baseline |-> <<>>, new |-> <<>>, identical |-> {},
     image |-> TestImage, absent |-> "none"]

\* What fs.readdir yields for the baseline or the new directory.
DirEntries(which) == IF env.fixed THEN {env[which]} ELSE Listings

\* What the pixel differ can report for an image: imagesAreSame.
Verdicts(name) == IF env.fixed THEN {name \in env.identical} ELSE BOOLEAN

\* Directories of the call, as tuples of path segments.
DirBaseline == <<"temp", "baseline">>
DirNew == <<"temp", "new">>
DirDiffGiven == <<"temp", "diff">>


-----------------------------------------------------------------------------
(* Strings *)

\* Case folding of the `i` flag, on the letters the extensions use.
Lower(c) ==
    CASE c = "J" -> "j"
      [] c = "P" -> "p"
      [] c = "E" -> "e"
      [] c = "G" -> "g"
      [] c = "N" -> "n"
      [] OTHER -> c

LowerSeq(s) == [i \in 1..Len(s) |-> Lower(s[i])]

\* The regular expression /(.ext)$/i : any one character, then `ext`
\* (letters compared without case), then the end of the string.  The dot of
\* the pattern is the wildcard, not a literal dot.
MatchesAnyCharThen(s, ext) ==
    /\ Len(s) >= Len(ext) + 1
    /\ LowerSeq(SubSeq(s, Len(s) - Len(ext) + 1, Len(s))) = ext

JPG == <<"j", "p", "g">>
JPEG == <<"j", "p", "e", "g">>
PNG == <<"p", "n", "g">>
DOT_PNG == <<".", "p", "n", "g">>
TEMP == <<"t", "e", "m", "p">>
NULL_WORD == <<"n", "u", "l", "l">>

\* \w of a regular expression, on the characters of the model's names.
IsWordChar(c) == c \notin {".", "-", " "}

\* new RegExp('\\b' + extension + '$\\b') with extension === null: the string
\* concatenation yields the pattern \bnull$\b, which matches a name ending in
\* the word "null".
MatchesNullWord(s) ==
    /\ Len(s) >= Len(NULL_WORD)
    /\ SubSeq(s, Len(s) - Len(NULL_WORD) + 1, Len(s)) = NULL_WORD
    /\ \/ Len(s) = Len(NULL_WORD)
       \/ ~IsWordChar(s[Len(s) - Len(NULL_WORD)])

\* String.prototype.split('.')
RECURSIVE SplitDot(_)
SplitDot(s) ==
    IF \A i \in 1..Len(s) : s[i] # "."
    THEN <<s>>
    ELSE LET i == CHOOSE k \in 1..Len(s) :
                      /\ s[k] = "."
                      /\ \A m \in 1..(k - 1) : s[m] # "."
         IN  <<SubSeq(s, 1, i - 1)>> \o SplitDot(SubSeq(s, i + 1, Len(s)))

\* Array.prototype.join('.')
RECURSIVE JoinDot(_)
JoinDot(parts) ==
    IF Len(parts) = 0 THEN <<>>
    ELSE IF Len(parts) = 1 THEN parts[1]
    ELSE parts[1] \o <<".">> \o JoinDot(Tail(parts))

\* Array.prototype.splice(start, 0, item): insert item before index `start`
\* (0-based).
SpliceInsert(parts, start, item) ==
    SubSeq(parts, 1, start) \o <<item>> \o SubSeq(parts, start + 1, Len(parts))

\* A temp name that takes the place of the last segment: splice(start, 1, item).
tempFileNameReplacesExtension(regularName) ==
    LET diffName == SplitDot(regularName)
    IN  JoinDot(SubSeq(diffName, 1, Len(diffName) - 1) \o <<TEMP>>)

\* tempFileName of diffImages: `temp` inserted before the last segment.
tempFileName(regularName) ==
    LET diffName == SplitDot(regularName)
    IN  JoinDot(SpliceInsert(diffName, Len(diffName) - 1, TEMP))

\* pngExtension of compareImages: name.replace(/(.jpg)$|(.jpeg)$/i, '.png')
pngExtension(name) ==
    IF MatchesAnyCharThen(name, JPG)
    THEN SubSeq(name, 1, Len(name) - 4) \o DOT_PNG
    ELSE IF MatchesAnyCharThen(name, JPEG)
    THEN SubSeq(name, 1, Len(name) - 5) \o DOT_PNG
    ELSE name

\* path.normalize(dir + path.sep + name)
Path(dir, name) == <<dir, name>>

-----------------------------------------------------------------------------
(* Directory Lister and Directory Set Matcher *)

\* The filter of getImageNames called without an extension.
IsListedImage(file) ==
    \/ MatchesAnyCharThen(file, JPG)
    \/ MatchesAnyCharThen(file, JPEG)
    \/ MatchesAnyCharThen(file, PNG)
    \/ MatchesNullWord(file)

\* getImageNames(dir): what it resolves with when readDir resolved `entries`.
getImageNames(entries) == SelectSeq(entries, IsListedImage)

\* The nested forEach that fills `compare`: newFile is pushed once for every
\* baseline file equal to it.
RECURSIVE CompareList(_, _)
CompareList(filesBaseline, filesNew) ==
    IF Len(filesNew) = 0 THEN <<>>
    ELSE LET newFile == Head(filesNew)
         IN  [i \in 1..Len(SelectSeq(filesBaseline, LAMBDA b : newFile = b)) |-> newFile]
             \o CompareList(filesBaseline, Tail(filesNew))

\* A mis-matcher that pairs files by base name, ignoring the extension.
BaseName(name) == Head(SplitDot(name))

MatchByBaseName(filesBaseline, filesNew) ==
    LET compare == SelectSeq(filesNew, LAMBDA n :
                       \E i \in 1..Len(filesBaseline) : BaseName(filesBaseline[i]) = BaseName(n))
    IN  [compare  |-> compare,
         missing  |-> SelectSeq(filesNew, LAMBDA n :
                          ~\E i \in 1..Len(compare) : compare[i] = n),
         outdated |-> SelectSeq(filesBaseline, LAMBDA b :
                          ~\E i \in 1..Len(filesNew) : filesNew[i] = b)]

\* A matcher that files the baseline-only names under missing and the
\* new-only names under outdated.
MatchSwapped(filesBaseline, filesNew) ==
    LET compare == CompareList(filesBaseline, filesNew)
    IN  [compare  |-> compare,
         missing  |-> SelectSeq(filesBaseline, LAMBDA baselineFile :
                          ~\E i \in 1..Len(filesNew) : filesNew[i] = baselineFile),
         outdated |-> SelectSeq(filesNew, LAMBDA newFile :
                          ~\E i \in 1..Len(compare) : compare[i] = newFile)]

\* A matcher that pairs the two listings position by position.
MatchByPosition(filesBaseline, filesNew) ==
    LET paired(k) == k <= Len(filesBaseline) /\ k <= Len(filesNew)
                     /\ filesBaseline[k] = filesNew[k]
        at(list, which) == {k \in 1..Len(list) : paired(k) = which}
        pick(list, which) ==
            LET ks == at(list, which)
                RECURSIVE upTo(_)
                upTo(n) == IF n = 0 THEN <<>>
                           ELSE IF n \in ks THEN Append(upTo(n - 1), list[n])
                           ELSE upTo(n - 1)
            IN  upTo(Len(list))
    IN  [compare  |-> pick(filesNew, TRUE),
         missing  |-> pick(filesNew, FALSE),
         outdated |-> pick(filesBaseline, FALSE)]

\* What compareImageDirectories resolves with, given the two listings.
compareImageDirectories(filesBaseline, filesNew) ==
    LET compare == CompareList(filesBaseline, filesNew)
    IN  [compare  |-> compare,
         missing  |-> SelectSeq(filesNew, LAMBDA newFile :
                          ~\E i \in 1..Len(compare) : compare[i] = newFile),
         outdated |-> SelectSeq(filesBaseline, LAMBDA baselineFile :
                          ~\E i \in 1..Len(filesNew) : filesNew[i] = baselineFile)]


-----------------------------------------------------------------------------
(* Errors *)

\* compareImageDirectories: new Error('"dirBaseline" is not set'), and the
\* same for dirNew
ErrNotSet(option) == <<"is not set", <<option>>>>
\* readDir: new Error('Requested directory doesn\'t exist.')
ErrDirectoryNotFound(dir) == <<"Requested directory doesn't exist.", dir>>
\* readDir: new Error(`Unable to read directory: ${fileError}`)
ErrDirectoryRead(dir) == <<"Unable to read directory", dir>>
\* the error the pixel differ rejects with
ErrImgDiff(name) == <<"imgDiff failed", name>>
\* fileExists: new Error(`File ${path} was not found for ${timeout / 1000}s`)
ErrFileNotFound(path) == <<"File was not found", path>>
\* createDiffImage: new Error(`Cannot create diff image, reason: ${error}`)
ErrCannotCreateDiffImage(error) == <<"Cannot create diff image, reason", error>>
\* fs.unlinkSync on a missing file
ErrUnlink(path) == <<"ENOENT: no such file or directory, unlink", path>>

-----------------------------------------------------------------------------
(* Single-Image Comparator: the values of diffImages *)

\* The diff directory compareImages hands to every diffImages call.
DiffPath(opts) ==
    IF opts.dirDiff # Null THEN opts.dirDiff ELSE DirNew \o <<"diff">>

\* The OPTIONS of one diffImages call, with the state of its steps: the step
\* the call waits in, the differ's write of the temp file, the write of the
\* composed image, whether fileExists(temp), createDiffImage and
\* fs.unlinkSync(temp) have been called, whether an fs.stat of the wait
\* under way has seen the temp file (`seen`), and which of the three waits
\* of createDiffImage have resolved (`verified`).  `seen` and `verified`
\* follow the waits as long as the call depends on them: a rejection of the
\* call resets them (what the waits left over find changes nothing).
NewJob(opts, fileName) ==
    [imageName     |-> fileName,
     diffImageName |-> pngExtension(fileName),
     dirDiff       |-> DiffPath(opts),
     step          |-> "imgDiff",
     tempWrite     |-> "pending",
     toFile        |-> "none",
     composerCalled |-> FALSE,
     polled        |-> FALSE,
     seen          |-> FALSE,
     verified      |-> {},
     unlinkCalled  |-> FALSE,
     imgDiffResult |-> Null,
     value         |-> Null]

\* Where the differ is asked to write its raw diff bitmap.
TempFile(job) == Path(job.dirDiff, tempFileName(job.imageName))
\* Where the composed artifact is written.
DistFile(job) == Path(job.dirDiff, job.diffImageName)

\* What the pixel differ resolves with.
ImgDiffResult(same) ==
    [imagesAreSame |-> same,
     width         |-> env.image.width,
     height        |-> env.image.height,
     diffCount     |-> IF same THEN 0 ELSE env.image.diffCount]

\* The object diffImages resolves with when the images are the same.
OutcomeSame(job) ==
    [testedImage   |-> job.imageName,
     dirBaseline   |-> DirBaseline,
     dirNew        |-> DirNew,
     diffImagePath |-> Null,
     imagesAreSame |-> job.imgDiffResult.imagesAreSame,
     width         |-> job.imgDiffResult.width,
     height        |-> job.imgDiffResult.height,
     diffCount     |-> job.imgDiffResult.diffCount]

\* A comparator that reports the path of the raw diff bitmap instead of the
\* path of the composed artifact.
OutcomeDifferentTempPath(job) ==
    [testedImageName |-> job.imageName,
     dirBaseline     |-> DirBaseline,
     dirNew          |-> DirNew,
     diffImagePath   |-> Path(job.dirDiff, tempFileName(job.imageName)),
     imagesAreSame   |-> job.imgDiffResult.imagesAreSame,
     width           |-> job.imgDiffResult.width,
     height          |-> job.imgDiffResult.height,
     diffCount       |-> job.imgDiffResult.diffCount]

\* The object diffImages resolves with after the artifact was composed.
OutcomeDifferent(job) ==
    [testedImageName |-> job.imageName,
     dirBaseline     |-> DirBaseline,
     dirNew          |-> DirNew,
     diffImagePath   |-> DistFile(job),
     imagesAreSame   |-> job.imgDiffResult.imagesAreSame,
     width           |-> job.imgDiffResult.width,
     height          |-> job.imgDiffResult.height,
     diffCount       |-> job.imgDiffResult.diffCount]

\* The name an outcome is about, under whichever key it carries it.
ImageOf(outcome) ==
    IF "testedImage" \in DOMAIN outcome
    THEN outcome.testedImage
    ELSE outcome.testedImageName

-----------------------------------------------------------------------------
(* Batch Comparator: the join of compareImages *)

(* The Number arithmetic of the percentage.  A positive Number is kept as   *)
(* the IEEE 754 double it is: [exp, hi, lo] stands for                      *)
(* (hi * 2^27 + lo) * 2^(exp - 52) with 2^25 <= hi < 2^26 and 0 <= lo <     *)
(* 2^27, that is a significand of 53 bits; Zero has hi = lo = 0.  The       *)
(* operands are integers below 2^22, so that no subnormal, infinity or NaN  *)
(* arises for a positive divisor.                                           *)

RECURSIVE Pow2(_)
Pow2(k) == IF k = 0 THEN 1 ELSE 2 * Pow2(k - 1)

Zero == [exp |-> 0, hi |-> 0, lo |-> 0]

\* k further quotient bits of r / den by long division (r < den < 2^29),
\* some bits at a time: the bits as an integer q, and the remainder.
RECURSIVE LongDiv(_, _, _)
LongDiv(r, den, k) ==
    LET step == IF den < Pow2(22) THEN 8 ELSE 2
    IN  IF k <= step
        THEN [q |-> (r * Pow2(k)) \div den, r |-> (r * Pow2(k)) % den]
        ELSE LET first == LongDiv(r, den, step)
                 rest  == LongDiv(first.r, den, k - step)
             IN  [q |-> first.q * Pow2(k - step) + rest.q, r |-> rest.r]

\* The significand after rounding up by one unit in the last place.
NextUp(x) ==
    IF x.lo + 1 < Pow2(27) THEN [x EXCEPT !.lo = @ + 1]
    ELSE IF x.hi + 1 < Pow2(26) THEN [x EXCEPT !.hi = @ + 1, !.lo = 0]
    ELSE [exp |-> x.exp + 1, hi |-> Pow2(25), lo |-> 0]

\* a / n for integers 0 < a < 2^29 and 0 < n < 2^22: the quotient rounded to nearest, ties
\* to even.
Divide(a, n) ==
    LET up   == IF a >= n THEN CHOOSE k \in 0..29 : n * Pow2(k) <= a /\ a < n * Pow2(k + 1)
                ELSE 0
        down == IF a >= n THEN 0
                ELSE CHOOSE k \in 1..22 : a * Pow2(k) >= n /\ a * Pow2(k - 1) < n
        num  == a * Pow2(down)
        den  == n * Pow2(up)
        high == LongDiv(num - den, den, 25)
        low  == LongDiv(high.r, den, 27)
        quotient == [exp |-> up - down, hi |-> Pow2(25) + high.q, lo |-> low.q]
    IN  IF 2 * low.r > den \/ (2 * low.r = den /\ low.q % 2 = 1)
        THEN NextUp(quotient) ELSE quotient

\* The k low bits of x, least significant first, and back.
ToBits(x, k) == [i \in 1..k |-> (x \div Pow2(i - 1)) % 2]
RECURSIVE FromBits(_)
FromBits(bits) ==
    IF Len(bits) = 0 THEN 0
    ELSE IF Len(bits) = 1 THEN bits[1]
    ELSE LET half == Len(bits) \div 2
         IN  FromBits(SubSeq(bits, 1, half))
             + Pow2(half) * FromBits(SubSeq(bits, half + 1, Len(bits)))

\* The significand of x in limbs of eight bits, least significant first.
Limbs(x) ==
    LET bits == ToBits(x.lo, 27) \o ToBits(x.hi, 26) \o <<0, 0, 0>>
    IN  [i \in 1..7 |-> FromBits(SubSeq(bits, 8 * i - 7, 8 * i))]

\* The limbs of limbs * d, from limb i on, with the carry of the lower limbs.
RECURSIVE MulFrom(_, _, _, _)
MulFrom(limbs, d, i, carry) ==
    IF i > Len(limbs)
    THEN IF carry = 0 THEN <<>> ELSE <<carry % 256>> \o MulFrom(limbs, d, i, carry \div 256)
    ELSE LET t == limbs[i] * d + carry
         IN  <<t % 256>> \o MulFrom(limbs, d, i + 1, t \div 256)

\* The bits of the limbs, least significant first, without leading zeros.
BitsOf(limbs) ==
    LET all == [i \in 1..(8 * Len(limbs)) |->
                   (limbs[((i - 1) \div 8) + 1] \div Pow2((i - 1) % 8)) % 2]
        top == CHOOSE i \in 1..Len(all) :
                   all[i] = 1 /\ \A j \in (i + 1)..Len(all) : all[j] = 0
    IN  SubSeq(all, 1, top)

\* x * d for a Number x and an integer 0 <= d < 2^22: the exact product
\* rounded to 53 bits, to nearest, ties to even.
Multiply(x, d) ==
    IF d = 0 \/ x.hi = 0 THEN Zero
    ELSE LET product == BitsOf(MulFrom(Limbs(x), d, 1, 0))
             drop    == Len(product) - 53
             kept    == SubSeq(product, drop + 1, Len(product))
             guard   == drop >= 1 /\ product[drop] = 1
             sticky  == \E i \in 1..(drop - 1) : product[i] = 1
             rounded == [exp |-> x.exp + drop,
                         hi  |-> FromBits(SubSeq(kept, 28, 53)),
                         lo  |-> FromBits(SubSeq(kept, 1, 27))]
         IN  IF guard /\ (sticky \/ kept[1] = 1) THEN NextUp(rounded) ELSE rounded

\* result.diffPercentage = (100 / (result.width * result.height)) * result.diffCount
diffPercentage(result) ==
    Multiply(Divide(100, result.width * result.height), result.diffCount)

WithDiffPercentage(result) ==
    [k \in DOMAIN result \cup {"diffPercentage"} |->
        IF k = "diffPercentage" THEN diffPercentage(result) ELSE result[k]]

\* A sort whose if has no else: every result is pushed to passed.
SortResultsNoElse(results, matched) ==
    LET scored == [i \in 1..Len(results) |-> WithDiffPercentage(results[i])]
    IN  [passed   |-> scored,
         failed   |-> SelectSeq(scored, LAMBDA r : ~r.imagesAreSame),
         missing  |-> matched.missing,
         outdated |-> matched.outdated]

\* The then-callback of Promise.all in compareImages: sorts the results into
\* passed and failed, in the order of `results`.
SortResults(results, matched) ==
    LET scored == [i \in 1..Len(results) |-> WithDiffPercentage(results[i])]
    IN  [passed   |-> SelectSeq(scored, LAMBDA r : r.imagesAreSame),
         failed   |-> SelectSeq(scored, LAMBDA r : ~r.imagesAreSame),
         missing  |-> matched.missing,
         outdated |-> matched.outdated]

Pending == [state |-> "pending", value |-> Null]
Resolved(v) == [state |-> "resolved", value |-> v]
Rejected(e) == [state |-> "rejected", value |-> e]

\* A join that tolerates failures (Promise.allSettled, keeping the fulfilled
\* values): resolved once every promise has settled.
PromiseAllSettled(js, order) ==
    IF \A i \in 1..Len(js) : js[i].step \in {"resolved", "rejected"}
    THEN LET fulfilled == SelectSeq(js, LAMBDA j : j.step = "resolved")
         IN  Resolved([i \in 1..Len(fulfilled) |-> fulfilled[i].value])
    ELSE Pending

\* A join that collects the values as the promises complete, in completion
\* order instead of array order.
PromiseAllCompletionOrder(js, order) ==
    LET rejectedAt == {k \in 1..Len(order) : js[order[k]].step = "rejected"}
    IN  IF rejectedAt # {}
        THEN Rejected(js[order[CHOOSE k \in rejectedAt :
                                   \A m \in rejectedAt : k <= m]].value)
        ELSE IF \A i \in 1..Len(js) : js[i].step = "resolved"
        THEN Resolved([k \in 1..Len(order) |-> js[order[k]].value])
        ELSE Pending

\* Promise.all(imagesToCompare): rejected with the error of the first promise
\* that rejected, resolved with all values in the order of the array once
\* every promise has resolved, pending otherwise.  `order` is the order in
\* which the promises settled.
PromiseAll(js, order) ==
    LET rejectedAt == {k \in 1..Len(order) : js[order[k]].step = "rejected"}
    IN  IF rejectedAt # {}
        THEN Rejected(js[order[CHOOSE k \in rejectedAt :
                                   \A m \in rejectedAt : k <= m]].value)
        ELSE IF \A i \in 1..Len(js) : js[i].step = "resolved"
        THEN Resolved([i \in 1..Len(js) |-> js[i].value])
        ELSE Pending

\* The promise of compareImages after a callback: a promise settles once;
\* while pending it follows Promise.all through the then/catch handlers.
Settle(p, js, order, matched) ==
    IF p.state # "pending" THEN p
    ELSE LET all == PromiseAll(js, order)
         IN  IF all.state = "resolved"
             THEN Resolved(SortResults(all.value, matched))
             ELSE all


-----------------------------------------------------------------------------
(* The state machine *)

\* reject of a promise: without effect once the promise is settled.
Reject(p, e) == IF p.state = "pending" THEN Rejected(e) ELSE p

\* The error checks of compareImageDirectories: each calls reject and goes on.
\* compareImages passes the rejection on unchanged.
ErrorChecks(opts) ==
    LET baselineChecked == IF opts.dirBaseline = Null
                           THEN Reject(Pending, ErrNotSet("dirBaseline"))
                           ELSE Pending
    IN  IF opts.dirNew = Null
        THEN Reject(baselineChecked, ErrNotSet("dirNew"))
        ELSE baselineChecked

\* getImageNames(dir) is called whatever the error checks found.  readDir
\* calls fs.access(dir, ...): with dir === null it throws before it touches
\* the file system, which rejects readDir in the same turn.
Init ==
    /\ options \in [dirBaseline : {Null, DirBaseline}, dirNew : {Null, DirNew},
                    dirDiff : {Null, DirDiffGiven}]
    /\ pc = IF options.dirBaseline = Null THEN "done" ELSE "accessBaseline"
    /\ listing = [baseline |-> Null, new |-> Null]
    /\ files = Null
    /\ jobs = <<>>
    /\ disk = {}
    /\ promise = ErrorChecks(options)
    /\ settled = <<>>
    /\ wait = Null
    /\ env = AnyEnvironment
    /\ previous = <<>>
    /\ capture = Null
    /\ gen = Null

\* compareImages, the then-callback of compareImageDirectories: resolves at
\* once when nothing is to compare, and starts one diffImages call per name
\* of `compare`; every call invokes the pixel differ before the callback ends.
FanOut(opts, matched) ==
    [i \in 1..Len(matched.compare) |-> NewJob(opts, matched.compare[i])]

\* readDir: fs.access reports the directory readable; fs.readdir is started.
AccessOk ==
    /\ pc \in {"accessBaseline", "accessNew"}
    /\ pc' = IF pc = "accessBaseline" THEN "readdirBaseline" ELSE "readdirNew"
    /\ UNCHANGED <<options, env, previous, gen, capture, wait, listing, files, jobs, disk, promise, settled>>

\* A lister failure that is wrapped in a new error on its way up.
AccessFailWrapped ==
    /\ pc \in {"accessBaseline", "accessNew"}
    /\ promise' = Reject(promise, ErrCannotCreateDiffImage(ErrDirectoryNotFound(
                      IF pc = "accessBaseline" THEN options.dirBaseline
                                               ELSE options.dirNew)))
    /\ pc' = "done"
    /\ UNCHANGED <<options, env, previous, gen, capture, wait, listing, files, jobs, disk, settled>>

\* readDir: fs.access fails; the rejection reaches compareImages unchanged.
AccessFail ==
    /\ pc \in {"accessBaseline", "accessNew"}
    /\ promise' = Reject(promise, ErrDirectoryNotFound(
                      IF pc = "accessBaseline" THEN options.dirBaseline
                                               ELSE options.dirNew))
    /\ pc' = "done"
    /\ UNCHANGED <<options, env, previous, gen, capture, wait, listing, files, jobs, disk, settled>>

\* readDir: fs.readdir fails.
ReaddirFail ==
    /\ pc \in {"readdirBaseline", "readdirNew"}
    /\ promise' = Reject(promise, ErrDirectoryRead(
                      IF pc = "readdirBaseline" THEN options.dirBaseline
                                                ELSE options.dirNew))
    /\ pc' = "done"
    /\ UNCHANGED <<options, env, previous, gen, capture, wait, listing, files, jobs, disk, settled>>

\* getImageNames(dirBaseline) resolves; getImageNames(dirNew) is started
\* (and is rejected in the same turn when dirNew is null).
ListedBaseline ==
    /\ pc = "readdirBaseline"
    /\ \E entries \in DirEntries("baseline") :
           listing' = [listing EXCEPT !.baseline = getImageNames(entries)]
    /\ pc' = IF options.dirNew = Null THEN "done" ELSE "accessNew"
    /\ UNCHANGED <<options, env, previous, gen, capture, wait, files, jobs, disk, promise, settled>>

\* getImageNames(dirNew) resolves: compareImageDirectories computes the
\* MatchResult and resolves, and the then-callback of compareImages runs.
ListedNew ==
    /\ pc = "readdirNew"
    /\ \E entries \in DirEntries("new") :
         LET filesNew == getImageNames(entries)
             matched  == compareImageDirectories(listing.baseline, filesNew)
             started  == FanOut(options, matched)
             early    == IF Len(matched.compare) = 0
                         THEN Resolved([passed   |-> <<>>,
                                        failed   |-> <<>>,
                                        missing  |-> matched.missing,
                                        outdated |-> matched.outdated])
                         ELSE promise
         IN  /\ listing' = [baseline |-> Null, new |-> Null]
             /\ files' = matched
             /\ jobs' = started
             /\ promise' = Settle(early, started, settled, matched)
    /\ pc' = "comparing"
    /\ UNCHANGED <<options, env, previous, gen, capture, wait, disk, settled>>

\* The pixel differ writes its raw diff bitmap to the temp path (before or
\* after its promise resolves).
ImgDiffWritesTemp(i) ==
    /\ jobs[i].tempWrite = "pending"
    /\ disk' = disk \cup {TempFile(jobs[i])}
    /\ jobs' = [jobs EXCEPT ![i].tempWrite = "done"]
    /\ UNCHANGED <<options, env, previous, gen, capture, wait, pc, listing, files, promise, settled>>

\* imgDiff(...).then: the differ resolves and fileExists starts polling for
\* the temp file.
ImgDiffResolves(i) ==
    /\ jobs[i].step = "imgDiff"
    /\ \E same \in Verdicts(jobs[i].imageName) :
           jobs' = [jobs EXCEPT ![i].step = "fileExists",
                                ![i].polled = TRUE,
                                ![i].imgDiffResult = ImgDiffResult(same)]
    /\ UNCHANGED <<options, env, previous, gen, capture, wait, pc, listing, files, disk, promise, settled>>

\* A catch handler that wraps the differ's error in a new one.
ImgDiffRejectsWrapped(i) ==
    /\ jobs[i].step = "imgDiff"
    /\ jobs[i].tempWrite = "pending"
    /\ jobs' = [jobs EXCEPT ![i].step = "rejected",
                            ![i].tempWrite = "none",
                            ![i].value = ErrCannotCreateDiffImage(
                                             ErrImgDiff(jobs[i].imageName))]
    /\ settled' = Append(settled, i)
    /\ promise' = Settle(promise, jobs', settled', files)
    /\ UNCHANGED <<options, env, previous, gen, capture, wait, pc, listing, files, disk>>

\* A batch that is aborted by its first failure: the comparisons still under
\* way are abandoned.
ImgDiffRejectsAbortsBatch(i) ==
    /\ jobs[i].step = "imgDiff"
    /\ jobs[i].tempWrite = "pending"
    /\ jobs' = [j \in 1..Len(jobs) |->
                   IF j = i
                   THEN [jobs[j] EXCEPT !.step = "rejected",
                                        !.tempWrite = "none",
                                        !.value = ErrImgDiff(jobs[i].imageName)]
                   ELSE IF jobs[j].step \in {"resolved", "rejected"} THEN jobs[j]
                   ELSE [jobs[j] EXCEPT !.step = "unsettled", !.tempWrite = "none"]]
    /\ settled' = Append(settled, i)
    /\ promise' = Settle(promise, jobs', settled', files)
    /\ UNCHANGED <<options, env, previous, gen, capture, wait, pc, listing, files, disk>>

\* imgDiff(...).catch: the differ rejects without having written anything;
\* diffImages rejects with its error.
ImgDiffRejects(i) ==
    /\ jobs[i].step = "imgDiff"
    /\ jobs[i].tempWrite = "pending"
    /\ jobs' = [jobs EXCEPT ![i].step = "rejected",
                            ![i].tempWrite = "none",
                            ![i].value = ErrImgDiff(jobs[i].imageName)]
    /\ settled' = Append(settled, i)
    /\ promise' = Settle(promise, jobs', settled', files)
    /\ UNCHANGED <<options, env, previous, gen, capture, wait, pc, listing, files, disk>>

\* A delete that is never carried out.
unlinkSyncSkipped(dir, path) == dir

\* fs.unlinkSync(path): the directory without the file.
unlinkSync(dir, path) == dir \ {path}

\* fileExists(temp): an fs.stat issued by the interval callback is carried
\* out and sees the temp file; its callback is delivered in a later turn.
FileExistsStat(i) ==
    /\ jobs[i].step = "fileExists"
    /\ ~jobs[i].seen
    /\ TempFile(jobs[i]) \in disk
    /\ jobs' = [jobs EXCEPT ![i].seen = TRUE]
    /\ UNCHANGED <<options, env, previous, gen, capture, wait, pc, listing, files, disk, promise, settled>>

\* A then-callback that does not wait for a poll to find the temp file.
FileExistsResolvesUnconfirmed(i) ==
    /\ jobs[i].step = "fileExists"
    /\ IF jobs[i].imgDiffResult.imagesAreSame
       THEN /\ disk' = unlinkSync(disk, TempFile(jobs[i]))
            /\ jobs' = [jobs EXCEPT ![i].step = "resolved",
                                    ![i].unlinkCalled = TRUE,
                                    ![i].value = OutcomeSame(jobs[i])]
            /\ settled' = Append(settled, i)
            /\ promise' = Settle(promise, jobs', settled', files)
       ELSE /\ jobs' = [jobs EXCEPT ![i].step = "createDiffImage",
                                    ![i].seen = FALSE,
                                    ![i].composerCalled = TRUE]
            /\ UNCHANGED <<disk, settled, promise>>
    /\ UNCHANGED <<options, env, previous, gen, capture, wait, pc, listing, files>>

\* The callback of the fs.stat that saw the temp file, and with it
\* fileExists(temp).then.  Same images: the temp file is deleted and
\* diffImages resolves (unlinkSync throws when the file is gone by now, and
\* the catch handler rejects with that error).  Different images:
\* createDiffImage is called and starts its three existence waits.
FileExistsResolves(i) ==
    /\ jobs[i].step = "fileExists"
    /\ jobs[i].seen
    /\ IF jobs[i].imgDiffResult.imagesAreSame
       THEN /\ disk' = unlinkSync(disk, TempFile(jobs[i]))
            /\ jobs' = [jobs EXCEPT ![i].step = IF TempFile(jobs[i]) \in disk
                                                THEN "resolved" ELSE "rejected",
                                    ![i].unlinkCalled = TRUE,
                                    ![i].value = IF TempFile(jobs[i]) \in disk
                                                 THEN OutcomeSame(jobs[i])
                                                 ELSE ErrUnlink(TempFile(jobs[i]))]
            /\ settled' = Append(settled, i)
            /\ promise' = Settle(promise, jobs', settled', files)
       ELSE /\ jobs' = [jobs EXCEPT ![i].step = "createDiffImage",
                                    ![i].seen = FALSE,
                                    ![i].composerCalled = TRUE]
            /\ UNCHANGED <<disk, settled, promise>>
    /\ UNCHANGED <<options, env, previous, gen, capture, wait, pc, listing, files>>

\* fileExists(temp).catch: the interval callback counted `timer` up to the
\* timeout before any fs.stat callback had resolved the promise (the counting
\* does not depend on the file); diffImages rejects with the error of
\* fileExists and deletes nothing.
FileExistsRejects(i) ==
    /\ jobs[i].step = "fileExists"
    /\ jobs' = [jobs EXCEPT ![i].step = "rejected",
                            ![i].seen = FALSE,
                            ![i].value = ErrFileNotFound(TempFile(jobs[i]))]
    /\ settled' = Append(settled, i)
    /\ promise' = Settle(promise, jobs', settled', files)
    /\ UNCHANGED <<options, env, previous, gen, capture, wait, pc, listing, files, disk>>

\* The three waits of createDiffImage: imageBaseline, imageNew, imageDiff.
SourceNames == {"baseline", "new", "diff"}

\* The path of a wait: pathBaseline, pathNew, pathDiff.
SourcePath(job, source) ==
    IF source = "baseline" THEN Path(DirBaseline, job.imageName)
    ELSE IF source = "new" THEN Path(DirNew, job.imageName)
    ELSE TempFile(job)

\* The three paths createDiffImage waits for.
SourcePaths(job) == {SourcePath(job, source) : source \in SourceNames}

\* An fs.stat of the wait has found its file: the baseline and the new image
\* are found unless they have been removed, the raw diff when an fs.stat
\* carried out earlier saw it.
Found(job, source) ==
    IF source = "diff" THEN job.seen ELSE env.absent # source

\* createDiffImage, fileExists(pathDiff): an fs.stat of the wait for the raw
\* diff is carried out and sees it; its callback is delivered in a later
\* turn.
SourcesStat(i) ==
    /\ jobs[i].step = "createDiffImage"
    /\ ~jobs[i].seen
    /\ TempFile(jobs[i]) \in disk
    /\ jobs' = [jobs EXCEPT ![i].seen = TRUE]
    /\ UNCHANGED <<options, env, previous, gen, capture, wait, pc, listing, files, disk, promise, settled>>

\* createDiffImage, the callback of an fs.stat that found its file resolves
\* one of the three waits while another is still pending: Promise.all goes
\* on waiting.
SourceVerified(i) ==
    /\ jobs[i].step = "createDiffImage"
    /\ \E source \in SourceNames \ jobs[i].verified :
           /\ Found(jobs[i], source)
           /\ jobs[i].verified \cup {source} # SourceNames
           /\ jobs' = [jobs EXCEPT ![i].verified = @ \cup {source}]
    /\ UNCHANGED <<options, env, previous, gen, capture, wait, pc, listing, files, disk, promise, settled>>

\* A createDiffImage that deletes the raw diff as soon as it has seen it.
SourcesExistThenUnlinks(i) ==
    /\ jobs[i].step = "createDiffImage"
    /\ \E source \in SourceNames \ jobs[i].verified :
           /\ Found(jobs[i], source)
           /\ jobs[i].verified \cup {source} = SourceNames
    /\ disk' = disk \ {TempFile(jobs[i])}
    /\ jobs' = [jobs EXCEPT ![i].step = "joinImages", ![i].verified = SourceNames]
    /\ UNCHANGED <<options, env, previous, gen, capture, wait, pc, listing, files, promise, settled>>

\* A createDiffImage that waits for the raw diff alone.
SourcesExistDiffOnly(i) ==
    /\ jobs[i].step = "createDiffImage"
    /\ jobs[i].seen
    /\ jobs' = [jobs EXCEPT ![i].step = "joinImages",
                            ![i].verified = @ \cup {"diff"}]
    /\ UNCHANGED <<options, env, previous, gen, capture, wait, pc, listing, files, disk, promise, settled>>

\* createDiffImage, Promise.all([imageBaseline, imageNew, imageDiff]).then:
\* the callback of an fs.stat that found its file resolves the last of the
\* three waits and joinImages is called, whether the raw diff is still there
\* or not.
SourcesExist(i) ==
    /\ jobs[i].step = "createDiffImage"
    /\ \E source \in SourceNames \ jobs[i].verified :
           /\ Found(jobs[i], source)
           /\ jobs[i].verified \cup {source} = SourceNames
    /\ jobs' = [jobs EXCEPT ![i].step = "joinImages", ![i].verified = SourceNames]
    /\ UNCHANGED <<options, env, previous, gen, capture, wait, pc, listing, files, disk, promise, settled>>

\* A createDiffImage that hands the error of the existence wait on as it is.
SourceMissingUnwrapped(i) ==
    /\ jobs[i].step = "createDiffImage"
    /\ \E source \in SourceNames \ jobs[i].verified :
           jobs' = [jobs EXCEPT ![i].step = "rejected",
                                ![i].seen = FALSE,
                                ![i].verified = {},
                                ![i].value = ErrFileNotFound(SourcePath(jobs[i], source))]
    /\ settled' = Append(settled, i)
    /\ promise' = Settle(promise, jobs', settled', files)
    /\ UNCHANGED <<options, env, previous, gen, capture, wait, pc, listing, files, disk>>

\* createDiffImage, Promise.all(...).catch: a wait that has not resolved
\* timed out; createDiffImage rejects with the wrapped error, which names the
\* path of that wait, and diffImages passes it on (its catch handler deletes
\* nothing).
SourceMissing(i) ==
    /\ jobs[i].step = "createDiffImage"
    /\ \E source \in SourceNames \ jobs[i].verified :
           jobs' = [jobs EXCEPT ![i].step = "rejected",
                                ![i].seen = FALSE,
                                ![i].verified = {},
                                ![i].value = ErrCannotCreateDiffImage(
                                                 ErrFileNotFound(SourcePath(jobs[i], source)))]
    /\ settled' = Append(settled, i)
    /\ promise' = Settle(promise, jobs', settled', files)
    /\ UNCHANGED <<options, env, previous, gen, capture, wait, pc, listing, files, disk>>

\* joinImages(...).then: img.toFile(pathDist) is started and, without waiting
\* for it, createDiffImage resolves; the then-callback of diffImages deletes
\* the temp file and resolves (unlinkSync throws when the file is gone, and
\* the catch handler rejects with that error).
JoinImagesResolves(i) ==
    /\ jobs[i].step = "joinImages"
    /\ IF TempFile(jobs[i]) \in disk
       THEN /\ disk' = unlinkSync(disk, TempFile(jobs[i]))
            /\ jobs' = [jobs EXCEPT ![i].step = "resolved",
                                    ![i].toFile = "pending",
                                    ![i].unlinkCalled = TRUE,
                                    ![i].value = OutcomeDifferent(jobs[i])]
       ELSE /\ disk' = disk
            /\ jobs' = [jobs EXCEPT ![i].step = "rejected",
                                    ![i].toFile = "pending",
                                    ![i].unlinkCalled = TRUE,
                                    ![i].value = ErrUnlink(TempFile(jobs[i]))]
    /\ settled' = Append(settled, i)
    /\ promise' = Settle(promise, jobs', settled', files)
    /\ UNCHANGED <<options, env, previous, gen, capture, wait, pc, listing, files>>

\* joinImages(...) rejects: the inner chain has no catch and is not returned
\* to the outer chain, so neither resolve nor reject of createDiffImage is
\* ever called.
JoinImagesRejects(i) ==
    /\ jobs[i].step = "joinImages"
    /\ jobs' = [jobs EXCEPT ![i].step = "unsettled"]
    /\ UNCHANGED <<options, env, previous, gen, capture, wait, pc, listing, files, disk, promise, settled>>

\* img.toFile(pathDist) completes: the composed artifact is on disk.
ToFileWrites(i) ==
    /\ jobs[i].toFile = "pending"
    /\ disk' = disk \cup {DistFile(jobs[i])}
    /\ jobs' = [jobs EXCEPT ![i].toFile = "written"]
    /\ UNCHANGED <<options, env, previous, gen, capture, wait, pc, listing, files, promise, settled>>

\* img.toFile(pathDist) fails: nobody observes its promise.
ToFileFails(i) ==
    /\ jobs[i].toFile = "pending"
    /\ jobs' = [jobs EXCEPT ![i].toFile = "failed"]
    /\ UNCHANGED <<options, env, previous, gen, capture, wait, pc, listing, files, disk, promise, settled>>

Next ==
    \/ AccessOk
    \/ AccessFail
    \/ ReaddirFail
    \/ ListedBaseline
    \/ ListedNew
    \/ \E i \in 1..Len(jobs) : ImgDiffWritesTemp(i)
    \/ \E i \in 1..Len(jobs) : ImgDiffResolves(i)
    \/ \E i \in 1..Len(jobs) : ImgDiffRejects(i)
    \/ \E i \in 1..Len(jobs) : FileExistsStat(i)
    \/ \E i \in 1..Len(jobs) : FileExistsResolves(i)
    \/ \E i \in 1..Len(jobs) : FileExistsRejects(i)
    \/ \E i \in 1..Len(jobs) : SourcesStat(i)
    \/ \E i \in 1..Len(jobs) : SourceVerified(i)
    \/ \E i \in 1..Len(jobs) : SourcesExist(i)
    \/ \E i \in 1..Len(jobs) : SourceMissing(i)
    \/ \E i \in 1..Len(jobs) : JoinImagesResolves(i)
    \/ \E i \in 1..Len(jobs) : JoinImagesRejects(i)
    \/ \E i \in 1..Len(jobs) : ToFileWrites(i)
    \/ \E i \in 1..Len(jobs) : ToFileFails(i)

Spec == Init /\ [][Next]_vars


-----------------------------------------------------------------------------
(* The Directory Set Matcher and the name functions on their own:           *)
(* compareImageDirectories applied to every pair of listings getImageNames  *)
(* can resolve with, followed by the then-callback of compareImages, which  *)
(* computes the diff artifact name and the temp name of every compared      *)
(* image.  The listings stay in view.                                       *)

MatcherInit ==
    /\ options \in [dirBaseline : {DirBaseline}, dirNew : {DirNew}, dirDiff : {Null}]
    /\ pc = "matcher"
    /\ listing \in [baseline : {getImageNames(l) : l \in MatcherListings},
                    new : {getImageNames(l) : l \in MatcherListings}]
    /\ files = Null
    /\ jobs = <<>>
    /\ disk = {}
    /\ promise = Pending
    /\ settled = <<>>
    /\ wait = Null
    /\ env = AnyEnvironment
    /\ previous = <<>>
    /\ capture = Null
    /\ gen = Null

\* compareImageDirectories resolves with the MatchResult of the two listings
\* and the then-callback of compareImages runs, as in ListedNew.
Matcher ==
    /\ pc = "matcher"
    /\ LET matched == compareImageDirectories(listing.baseline, listing.new)
           started == FanOut(options, matched)
           early   == IF Len(matched.compare) = 0
                      THEN Resolved([passed   |-> <<>>,
                                     failed   |-> <<>>,
                                     missing  |-> matched.missing,
                                     outdated |-> matched.outdated])
                      ELSE promise
       IN  /\ files' = matched
           /\ jobs' = started
           /\ promise' = Settle(early, started, settled, matched)
    /\ pc' = "matched"
    /\ UNCHANGED <<options, env, previous, gen, capture, wait, listing, disk, settled>>

MatcherNext == Matcher

SpecMatcher == MatcherInit /\ [][MatcherNext]_vars


-----------------------------------------------------------------------------
(* compareImages called twice, one call after the other, on directories     *)
(* that do not change and with a pixel differ whose verdict depends on the  *)
(* image only; each call gets an empty diff directory.                      *)

\* The contents of the directories of the repeated call.
TwiceDirs == {<<A_JPG, B_JPG>>, <<B_JPG, A_PNG>>, <<A_PNG, C_TXT>>, <<A_PNG, A_JPG>>}

TwiceInit ==
    /\ options \in [dirBaseline : {DirBaseline}, dirNew : {DirNew}, dirDiff : {Null}]
    /\ pc = "accessBaseline"
    /\ listing = [baseline |-> Null, new |-> Null]
    /\ files = Null
    /\ jobs = <<>>
    /\ disk = {}
    /\ promise = ErrorChecks(options)
    /\ settled = <<>>
    /\ wait = Null
    /\ env \in [fixed : {TRUE}, baseline : TwiceDirs, new : TwiceDirs,
                identical : SUBSET {A_JPG, A_PNG, B_JPG}, image : {TestImage},
                absent : {"none"}]
    /\ previous = <<>>
    /\ capture = Null
    /\ gen = Null

\* The artifact paths img.toFile of a call is still writing to.
PendingWrites == {DistFile(jobs[i]) : i \in {j \in 1..Len(jobs) : jobs[j].toFile = "pending"}}

\* The caller, in the then-callback of the first call, calls compareImages
\* again with the same options and a diff directory that is empty.  The
\* first call resolved without waiting for its img.toFile writes: those
\* still under way are kept, with the value it resolved with, in `previous`.
CalledAgain ==
    /\ pc = "comparing"
    /\ promise.state = "resolved"
    /\ previous = <<>>
    /\ previous' = <<promise.value, PendingWrites>>
    /\ pc' = "accessBaseline"
    /\ listing' = [baseline |-> Null, new |-> Null]
    /\ files' = Null
    /\ jobs' = <<>>
    /\ disk' = {}
    /\ promise' = ErrorChecks(options)
    /\ settled' = <<>>
    /\ UNCHANGED <<options, wait, env, gen, capture>>

\* img.toFile(pathDist) of the first call completes during the second call:
\* the artifact of the first call appears in the diff directory.
EarlierToFileWrites ==
    /\ Len(previous) = 2
    /\ \E path \in previous[2] :
           /\ disk' = disk \cup {path}
           /\ previous' = <<previous[1], previous[2] \ {path}>>
    /\ UNCHANGED <<options, env, gen, capture, wait, pc, listing, files, jobs, promise, settled>>

\* img.toFile(pathDist) of the first call fails during the second call.
EarlierToFileFails ==
    /\ Len(previous) = 2
    /\ \E path \in previous[2] :
           previous' = <<previous[1], previous[2] \ {path}>>
    /\ UNCHANGED <<options, env, gen, capture, wait, pc, listing, files, jobs, disk, promise, settled>>

TwiceNext ==
    \/ AccessOk
    \/ AccessFail
    \/ ReaddirFail
    \/ ListedBaseline
    \/ ListedNew
    \/ \E i \in 1..Len(jobs) : ImgDiffWritesTemp(i)
    \/ \E i \in 1..Len(jobs) : ImgDiffResolves(i)
    \/ \E i \in 1..Len(jobs) : ImgDiffRejects(i)
    \/ \E i \in 1..Len(jobs) : FileExistsStat(i)
    \/ \E i \in 1..Len(jobs) : FileExistsResolves(i)
    \/ \E i \in 1..Len(jobs) : FileExistsRejects(i)
    \/ \E i \in 1..Len(jobs) : SourcesStat(i)
    \/ \E i \in 1..Len(jobs) : SourceVerified(i)
    \/ \E i \in 1..Len(jobs) : SourcesExist(i)
    \/ \E i \in 1..Len(jobs) : SourceMissing(i)
    \/ \E i \in 1..Len(jobs) : JoinImagesResolves(i)
    \/ \E i \in 1..Len(jobs) : JoinImagesRejects(i)
    \/ \E i \in 1..Len(jobs) : ToFileWrites(i)
    \/ \E i \in 1..Len(jobs) : ToFileFails(i)
    \/ CalledAgain
    \/ EarlierToFileWrites
    \/ EarlierToFileFails

SpecTwice == TwiceInit /\ [][TwiceNext]_vars


-----------------------------------------------------------------------------
(* Concurrent calls: up to MaxCalls calls of compareImages with the same     *)
(* options, whose directories hold one and the same image name, after each  *)
(* call has listed and matched the directories and started its diffImages.  *)
(* jobs[c] is the diffImages call of call c; all calls share the diff       *)
(* directory `disk`.                                                        *)

\* Most compareImages calls running at the same time.
MaxCalls == 2

\* The variable `promise` follows no call here: every call has its own.
PerCall == [state |-> "per call", value |-> Null]

RaceInit ==
    /\ options \in [dirBaseline : {DirBaseline}, dirNew : {DirNew},
                    dirDiff : {Null, DirDiffGiven}]
    /\ pc = "comparing"
    /\ listing = [baseline |-> Null, new |-> Null]
    /\ \E name \in {A_JPG, B_JPG}, calls \in 1..MaxCalls :
           /\ files = compareImageDirectories(<<name>>, <<name>>)
           /\ jobs = [c \in 1..calls |-> FanOut(options, files)[1]]
    /\ disk = {}
    /\ promise = PerCall
    /\ settled = <<>>
    /\ wait = Null
    /\ env = AnyEnvironment
    /\ previous = <<>>
    /\ capture = Null
    /\ gen = Null

\* The promise compareImages returned to call c: Promise.all over the one
\* diffImages call of c.
CallPromise(c) ==
    Settle(Pending, <<jobs[c]>>,
           IF \E k \in 1..Len(settled) : settled[k] = c THEN <<1>> ELSE <<>>,
           files)

RaceNext ==
    \/ \E c \in 1..Len(jobs) : ImgDiffWritesTemp(c)
    \/ \E c \in 1..Len(jobs) : ImgDiffResolves(c)
    \/ \E c \in 1..Len(jobs) : ImgDiffRejects(c)
    \/ \E c \in 1..Len(jobs) : FileExistsStat(c)
    \/ \E c \in 1..Len(jobs) : FileExistsResolves(c)
    \/ \E c \in 1..Len(jobs) : FileExistsRejects(c)
    \/ \E c \in 1..Len(jobs) : SourcesStat(c)
    \/ \E c \in 1..Len(jobs) : SourceVerified(c)
    \/ \E c \in 1..Len(jobs) : SourcesExist(c)
    \/ \E c \in 1..Len(jobs) : SourceMissing(c)
    \/ \E c \in 1..Len(jobs) : JoinImagesResolves(c)
    \/ \E c \in 1..Len(jobs) : JoinImagesRejects(c)
    \/ \E c \in 1..Len(jobs) : ToFileWrites(c)
    \/ \E c \in 1..Len(jobs) : ToFileFails(c)

SpecRace == RaceInit /\ [][RaceNext]_vars


-----------------------------------------------------------------------------
(* The existence wait tick by tick: one call of fileExists for a path of    *)
(* the diff directory.  `promise` is the promise fileExists returned and     *)
(* `wait` its closure; the file is written by the pixel differ, at any time. *)

\* The timeouts and intervals (milliseconds) fileExists is called with.
WaitTimeouts == {100, 150, 200}
WaitIntervals == {50, 100}

\* The delay of a setInterval that is given none: the runtime uses 1 ms.
SetIntervalDelay == 1

\* resolve of a promise: without effect once the promise is settled.
Resolve(p, v) == IF p.state = "pending" THEN Resolved(v) ELSE p

FileExistsInit ==
    /\ options \in [dirBaseline : {DirBaseline}, dirNew : {DirNew}, dirDiff : {Null}]
    /\ pc = "fileExists"
    /\ listing = [baseline |-> Null, new |-> Null]
    /\ files = Null
    /\ jobs = <<>>
    /\ disk = {}
    /\ promise = Pending
    /\ settled = <<>>
    /\ wait \in [path     : {Path(DiffPath(options), tempFileName(A_JPG))},
                 timeout  : WaitTimeouts,
                 interval : WaitIntervals,
                 timer    : {0},
                 running  : {TRUE},
                 stats    : {<<>>},
                 elapsed  : {0}]
    /\ env = AnyEnvironment
    /\ previous = <<>>
    /\ capture = Null
    /\ gen = Null

\* The pixel differ writes the file the wait is for.
FileWritten ==
    /\ pc = "fileExists"
    /\ wait.path \notin disk
    /\ disk' = disk \cup {wait.path}
    /\ UNCHANGED <<options, env, previous, gen, capture, wait, pc, listing, files, jobs, promise, settled>>

\* The callback of setInterval: counts the timer up by `interval`, issues
\* fs.stat, and when the timer has reached the timeout clears the interval
\* and rejects, all in the same turn.  `elapsed` is the least time that has
\* passed since the call; `atIssue` records whether the file existed when the
\* fs.stat was issued, `found` what the stat saw when it was carried out and
\* `final` whether the same callback rejected.
IntervalTick ==
    /\ pc = "fileExists"
    /\ wait.running
    /\ LET timer   == wait.timer + wait.interval
           expired == timer >= wait.timeout
       IN  /\ wait' = [wait EXCEPT
                          !.timer = timer,
                          !.elapsed = @ + SetIntervalDelay,
                          !.stats = Append(@, [atIssue |-> wait.path \in disk,
                                               found   |-> FALSE,
                                               final   |-> expired,
                                               state   |-> "issued"]),
                          !.running = ~expired]
           /\ promise' = IF expired
                         THEN Reject(promise, ErrFileNotFound(wait.path))
                         ELSE promise
    /\ UNCHANGED <<options, env, previous, gen, capture, pc, listing, files, jobs, disk, settled>>

\* The k-th fs.stat is carried out by the thread pool, at some moment after
\* it was issued: `found` is what it saw of the file then (err === null).
StatCarriedOut(k) ==
    /\ pc = "fileExists"
    /\ wait.stats[k].state = "issued"
    /\ wait' = [wait EXCEPT !.stats[k].state = "carried out",
                            !.stats[k].found = wait.path \in disk]
    /\ UNCHANGED <<options, env, previous, gen, capture, pc, listing, files, jobs, disk, promise, settled>>

\* The callback of the k-th fs.stat, with the result of the stat: when it
\* found the file (err === null) the callback clears the interval and
\* resolves; otherwise it does nothing.
StatCallback(k) ==
    /\ pc = "fileExists"
    /\ wait.stats[k].state = "carried out"
    /\ LET found == wait.stats[k].found
       IN  /\ wait' = [wait EXCEPT !.stats[k].state = "done",
                                   !.running = IF found THEN FALSE ELSE @]
           /\ promise' = IF found THEN Resolve(promise, TRUE) ELSE promise
    /\ UNCHANGED <<options, env, previous, gen, capture, pc, listing, files, jobs, disk, settled>>

FileExistsNext ==
    \/ FileWritten
    \/ IntervalTick
    \/ \E k \in 1..Len(wait.stats) : StatCarriedOut(k)
    \/ \E k \in 1..Len(wait.stats) : StatCallback(k)

SpecFileExists == FileExistsInit /\ [][FileExistsNext]_vars


-----------------------------------------------------------------------------
(* The Capture Orchestrator: one call of generateImages.  `promise` is the  *)
(* promise it returned and `gen` its closure.  screenshot is the            *)
(* environment: a capture job that was started resolves or rejects.         *)

\* Most configurations in imagesConfig.
MaxJobs == 2

\* The thresholds of the capability check.
MinCores == 4
MinSpeed == 2500
MinFreeRam == 8096

\* One image configuration, as the caller wrote it.
Config(i) == [name |-> i, debug |-> "false", path |-> <<"temp", "baseline">>]
Configs(n) == [i \in 1..n |-> Config(i)]

\* What a capture job resolves or rejects with, and the error of the
\* configuration check (job 0).
ShotResult(i) == [job |-> i, ok |-> TRUE]
ShotError(i) == [job |-> i, ok |-> FALSE]
ConfigError == [job |-> 0, ok |-> FALSE]

\* The value of a settled promise of generateImages: an array (of results or
\* of errors) or one Error object.
ArrayOf(items) == [type |-> "Array", items |-> items]
SingleError(e) == [type |-> "Error", items |-> <<e>>]

\* What the key debug of the options can hold: nothing (the default null),
\* a boolean, undefined, or a non-empty string.
DebugValues == {"null", "true", "false", "undefined", "text"}

\* Boolean(value): false, undefined, null (0, NaN and the empty string) give
\* false, everything else gives true.
Boolean(value) == IF value \in {"false", "undefined", "null"} THEN "false" ELSE "true"

\* What generateImages is called with.  `call` tells whether the argument is
\* an options object or the configuration array itself; `kind` is what the
\* key imagesConfig of an options object holds: nothing ("null"), an array,
\* or a value that is no array but has a length and elements ("arrayLike":
\* a string, an object with numeric keys).
GenInputs ==
    [call   : {"options"},
     kind   : {"array"},
     given  : {Configs(n) : n \in 0..MaxJobs},
     serial : {"null", "true", "false"},
     debug  : DebugValues,
     path   : {Null, <<"temp", "new">>}]
    \cup
    [call   : {"options"},
     kind   : {"null"},
     given  : {<<>>},
     serial : {"null", "true", "false"},
     debug  : DebugValues,
     path   : {Null, <<"temp", "new">>}]
    \cup
    [call   : {"options"},
     kind   : {"arrayLike"},
     given  : {Configs(n) : n \in 1..MaxJobs},
     serial : {"null", "true", "false"},
     debug  : DebugValues,
     path   : {Null, <<"temp", "new">>}]
    \cup
    [call   : {"array"},
     kind   : {"null"},
     given  : {Configs(n) : n \in 1..MaxJobs},
     serial : {"null"},
     debug  : {"null"},
     path   : {Null}]

\* os.cpus().length, os.cpus()[0].speed and the free memory in MB.
Hosts ==
    [cpuCores : {MinCores - 1, MinCores},
     cpuSpeed : {MinSpeed, MinSpeed + 1},
     freeRam  : {MinFreeRam - 1, MinFreeRam}]

\* OPTIONS.imagesConfig after the defaults and the spread of the argument:
\* an array argument has no key imagesConfig, so the default null stays.
ImagesConfig(input) ==
    IF input.call = "array" \/ input.kind = "null"
    THEN [kind |-> "null", items |-> <<>>]
    ELSE [kind |-> input.kind, items |-> input.given]

\* An override that hands the debug option on as it was given.
OverrideAsGiven(input, config) ==
    [config EXCEPT
        !.debug = IF input.debug = "null" THEN @ ELSE input.debug,
        !.path  = IF input.path = Null THEN @ ELSE input.path]

\* The overrides: debug (as a boolean) and path of OPTIONS, when not null,
\* replace those of every configuration.
Override(input, config) ==
    [config EXCEPT
        !.debug = IF input.debug = "null" THEN @ ELSE Boolean(input.debug),
        !.path  = IF input.path = Null THEN @ ELSE input.path]

\* A capability check that takes a clock of exactly MinSpeed as enough.
ModeSpeedAtLeast(input, host) ==
    LET capability == IF /\ input.serial = "null"
                         /\ host.cpuCores >= MinCores
                         /\ host.cpuSpeed >= MinSpeed
                         /\ host.freeRam >= MinFreeRam
                      THEN "capable" ELSE "low"
    IN  IF \/ input.serial = "true"
           \/ (input.serial = "null" /\ capability = "low")
        THEN "series" ELSE "parallel"

\* The mode the main function selects.
Mode(input, host) ==
    LET capability == IF /\ input.serial = "null"
                         /\ host.cpuCores >= MinCores
                         /\ host.cpuSpeed > MinSpeed
                         /\ host.freeRam >= MinFreeRam
                      THEN "capable" ELSE "low"
    IN  IF \/ input.serial = "true"
           \/ (input.serial = "null" /\ capability = "low")
        THEN "series" ELSE "parallel"

GenerateInit ==
    /\ options = [dirBaseline |-> Null, dirNew |-> Null, dirDiff |-> Null]
    /\ pc = "generate"
    /\ listing = [baseline |-> Null, new |-> Null]
    /\ files = Null
    /\ jobs = <<>>
    /\ disk = {}
    /\ promise = Pending
    /\ settled = <<>>
    /\ wait = Null
    /\ env = AnyEnvironment
    /\ previous = <<>>
    /\ capture = Null
    /\ gen \in [input   : GenInputs,
                host    : Hosts,
                mode    : {"none"},
                shots   : {<<>>},
                started : {<<>>},
                order   : {<<>>},
                results : {<<>>},
                errors  : {<<>>}]

\* A capture job of the list, before screenshot is called for it.
Shot(config) == [step |-> "idle", value |-> Null, config |-> config]

\* generateImages is called: the executor of its promise runs to its end.
\* The configuration check rejects and goes on.  The overrides call
\* imagesConfig.map, which throws when imagesConfig is no array; an
\* exception in the executor only rejects the (already rejected) promise.
\* Then the mode is selected and generateInSeries or generateInParallel is
\* called: both read imagesConfig.length, which throws when imagesConfig is
\* null; in series the first capture job is started, in parallel all are.
GenerateImagesCalled ==
    /\ pc = "generate"
    /\ LET input   == gen.input
           config  == ImagesConfig(input)
           n       == Len(config.items)
           checked == IF config.kind # "array" \/ n < 1
                      THEN Reject(promise, SingleError(ConfigError))
                      ELSE promise
           threw   == \/ (config.kind # "array" /\ (input.debug # "null" \/ input.path # Null))
                      \/ config.kind = "null"
           mode    == IF config.kind # "array" /\ (input.debug # "null" \/ input.path # Null)
                      THEN "none" ELSE Mode(input, gen.host)
           first   == IF mode = "series" THEN {1} ELSE 1..n
           shots   == [i \in 1..n |->
                          IF i \in first
                          THEN [Shot(Override(input, config.items[i])) EXCEPT !.step = "running"]
                          ELSE Shot(Override(input, config.items[i]))]
       IN  /\ gen' = [gen EXCEPT
                         !.mode = mode,
                         !.shots = IF threw THEN <<>> ELSE shots,
                         !.started = IF threw THEN <<>>
                                     ELSE [k \in 1..Cardinality(first \cap 1..n) |-> k]]
           /\ promise' = IF ~threw /\ n = 0
                         THEN Resolve(checked, ArrayOf(<<>>))
                         ELSE checked
    /\ pc' = "generating"
    /\ UNCHANGED <<options, env, previous, capture, wait, listing, files, jobs, disk, settled>>

\* A series that gives up at the first failed job: the jobs after it are not
\* started and the call rejects with the errors so far.
ShotSettledStopsAtError(i, ok) ==
    LET outcome == IF ok THEN ShotResult(i) ELSE ShotError(i)
        settledShots == [gen.shots EXCEPT ![i].step = IF ok THEN "resolved" ELSE "rejected",
                                          ![i].value = outcome]
        order   == Append(gen.order, i)
        results == IF ok THEN Append(gen.results, outcome) ELSE gen.results
        errors  == IF ok THEN gen.errors ELSE Append(gen.errors, outcome)
        last    == i = Len(gen.shots) \/ ~ok
    IN  IF gen.mode = "series"
        THEN /\ gen' = [gen EXCEPT
                           !.shots = IF last THEN settledShots
                                     ELSE [settledShots EXCEPT ![i + 1].step = "running"],
                           !.started = IF last THEN @ ELSE Append(@, i + 1),
                           !.order = order,
                           !.results = results,
                           !.errors = errors]
             /\ promise' = IF ~last THEN promise
                           ELSE IF Len(errors) = 0
                           THEN Resolve(promise, ArrayOf(results))
                           ELSE Reject(promise, ArrayOf(errors))
        ELSE /\ gen' = [gen EXCEPT !.shots = settledShots, !.order = order]
             /\ promise' =
                    LET all == PromiseAll(settledShots, order)
                    IN  IF all.state = "resolved"
                        THEN Resolve(promise, ArrayOf(all.value))
                        ELSE IF all.state = "rejected"
                        THEN Reject(promise, SingleError(all.value))
                        ELSE promise

\* A series that forgets the errors: after the last job it resolves with the
\* results it has.
ShotSettledDropsErrors(i, ok) ==
    LET outcome == IF ok THEN ShotResult(i) ELSE ShotError(i)
        settledShots == [gen.shots EXCEPT ![i].step = IF ok THEN "resolved" ELSE "rejected",
                                          ![i].value = outcome]
        order   == Append(gen.order, i)
        results == IF ok THEN Append(gen.results, outcome) ELSE gen.results
        last    == i = Len(gen.shots)
    IN  IF gen.mode = "series"
        THEN /\ gen' = [gen EXCEPT
                           !.shots = IF last THEN settledShots
                                     ELSE [settledShots EXCEPT ![i + 1].step = "running"],
                           !.started = IF last THEN @ ELSE Append(@, i + 1),
                           !.order = order,
                           !.results = results]
             /\ promise' = IF ~last THEN promise
                           ELSE Resolve(promise, ArrayOf(results))
        ELSE /\ gen' = [gen EXCEPT !.shots = settledShots, !.order = order]
             /\ promise' =
                    LET all == PromiseAll(settledShots, order)
                    IN  IF all.state = "resolved"
                        THEN Resolve(promise, ArrayOf(all.value))
                        ELSE IF all.state = "rejected"
                        THEN Reject(promise, SingleError(all.value))
                        ELSE promise

\* A parallel run that collects the results as the jobs complete and not by
\* their place in the list.
ShotSettledInCompletionOrder(i, ok) ==
    LET outcome == IF ok THEN ShotResult(i) ELSE ShotError(i)
        settledShots == [gen.shots EXCEPT ![i].step = IF ok THEN "resolved" ELSE "rejected",
                                          ![i].value = outcome]
        order   == Append(gen.order, i)
        results == IF ok THEN Append(gen.results, outcome) ELSE gen.results
        errors  == IF ok THEN gen.errors ELSE Append(gen.errors, outcome)
        last    == i = Len(gen.shots)
    IN  IF gen.mode = "series"
        THEN /\ gen' = [gen EXCEPT
                           !.shots = IF last THEN settledShots
                                     ELSE [settledShots EXCEPT ![i + 1].step = "running"],
                           !.started = IF last THEN @ ELSE Append(@, i + 1),
                           !.order = order,
                           !.results = results,
                           !.errors = errors]
             /\ promise' = IF ~last THEN promise
                           ELSE IF Len(errors) = 0
                           THEN Resolve(promise, ArrayOf(results))
                           ELSE Reject(promise, ArrayOf(errors))
        ELSE /\ gen' = [gen EXCEPT !.shots = settledShots, !.order = order]
             /\ promise' =
                    LET all == PromiseAll(settledShots, order)
                    IN  IF all.state = "resolved"
                        THEN Resolve(promise,
                                     ArrayOf([k \in 1..Len(order) |-> settledShots[order[k]].value]))
                        ELSE IF all.state = "rejected"
                        THEN Reject(promise, SingleError(all.value))
                        ELSE promise

\* The promise of generateImages after capture job i has settled.  Series:
\* the outcome is pushed to results or errors and the loop starts the next
\* job; after the last one the call resolves with results when errors is
\* empty and rejects with errors otherwise.  Parallel: Promise.all over the
\* capture jobs.
ShotSettled(i, ok) ==
    LET outcome == IF ok THEN ShotResult(i) ELSE ShotError(i)
        settledShots == [gen.shots EXCEPT ![i].step = IF ok THEN "resolved" ELSE "rejected",
                                          ![i].value = outcome]
        order   == Append(gen.order, i)
        results == IF ok THEN Append(gen.results, outcome) ELSE gen.results
        errors  == IF ok THEN gen.errors ELSE Append(gen.errors, outcome)
        last    == i = Len(gen.shots)
    IN  IF gen.mode = "series"
        THEN /\ gen' = [gen EXCEPT
                           !.shots = IF last THEN settledShots
                                     ELSE [settledShots EXCEPT ![i + 1].step = "running"],
                           !.started = IF last THEN @ ELSE Append(@, i + 1),
                           !.order = order,
                           !.results = results,
                           !.errors = errors]
             /\ promise' = IF ~last THEN promise
                           ELSE IF Len(errors) = 0
                           THEN Resolve(promise, ArrayOf(results))
                           ELSE Reject(promise, ArrayOf(errors))
        ELSE /\ gen' = [gen EXCEPT !.shots = settledShots, !.order = order]
             /\ promise' =
                    LET all == PromiseAll(settledShots, order)
                    IN  IF all.state = "resolved"
                        THEN Resolve(promise, ArrayOf(all.value))
                        ELSE IF all.state = "rejected"
                        THEN Reject(promise, SingleError(all.value))
                        ELSE promise

\* screenshot(imagesConfig[i]) resolves.
ScreenshotResolves(i) ==
    /\ pc = "generating"
    /\ gen.shots[i].step = "running"
    /\ ShotSettled(i, TRUE)
    /\ UNCHANGED <<options, env, previous, capture, wait, pc, listing, files, jobs, disk, settled>>

\* screenshot(imagesConfig[i]) rejects.
ScreenshotRejects(i) ==
    /\ pc = "generating"
    /\ gen.shots[i].step = "running"
    /\ ShotSettled(i, FALSE)
    /\ UNCHANGED <<options, env, previous, capture, wait, pc, listing, files, jobs, disk, settled>>

GenerateNext ==
    \/ GenerateImagesCalled
    \/ \E i \in 1..Len(gen.shots) : ScreenshotResolves(i)
    \/ \E i \in 1..Len(gen.shots) : ScreenshotRejects(i)

SpecGenerate == GenerateInit /\ [][GenerateNext]_vars

-----------------------------------------------------------------------------
(* The Directory Lister on directories whose entries are in view: one call  *)
(* of compareImages on a baseline directory that holds any of the listings  *)
(* of MatcherListings and a new directory with one image.                   *)

ListerInit ==
    /\ options \in [dirBaseline : {DirBaseline}, dirNew : {DirNew}, dirDiff : {Null}]
    /\ pc = "accessBaseline"
    /\ listing = [baseline |-> Null, new |-> Null]
    /\ files = Null
    /\ jobs = <<>>
    /\ disk = {}
    /\ promise = ErrorChecks(options)
    /\ settled = <<>>
    /\ wait = Null
    /\ env \in [fixed : {TRUE}, baseline : MatcherListings, new : {<<A_JPG>>},
                 identical : {{}, {A_JPG}}, image : {TestImage},
                absent : {"none"}]
    /\ previous = <<>>
    /\ capture = Null
    /\ gen = Null

ListerNext == Next

SpecLister == ListerInit /\ [][ListerNext]_vars


-----------------------------------------------------------------------------
(* The Diff Composer with a source that disappears: one compareImages call  *)
(* on two images, the differ's verdict fixed per image; the images of the   *)
(* baseline or of the new directory may be removed once the differ has read *)
(* them, so that the wait of createDiffImage for them never resolves.        *)

ComposerInit ==
    /\ options \in [dirBaseline : {DirBaseline}, dirNew : {DirNew}, dirDiff : {Null}]
    /\ pc = "accessBaseline"
    /\ listing = [baseline |-> Null, new |-> Null]
    /\ files = Null
    /\ jobs = <<>>
    /\ disk = {}
    /\ promise = ErrorChecks(options)
    /\ settled = <<>>
    /\ wait = Null
    /\ env \in [fixed : {TRUE}, baseline : {<<A_JPG, B_JPG>>}, new : {<<A_JPG, B_JPG>>},
                identical : {{}, {A_JPG}}, image : {TestImage},
                absent : {"none", "baseline", "new"}]
    /\ previous = <<>>
    /\ capture = Null
    /\ gen = Null

ComposerNext == Next

SpecComposer == ComposerInit /\ [][ComposerNext]_vars

-----------------------------------------------------------------------------
(* The percentage of an outcome: one call of compareImages on directories   *)
(* that hold the one image a.jpg, for which the pixel differ reports any of *)
(* the sizes and counts of Images.                                          *)

\* Sizes from one pixel to the 800 x 3665 page of the README, each with no
\* pixel, some pixels and every pixel different.
ImageSizes == {<<1, 1>>, <<3, 1>>, <<11, 1>>, <<2, 11>>, <<7, 7>>,
               <<ImageWidth, ImageHeight>>, <<800, 3665>>}
Images ==
    UNION {{[width |-> size[1], height |-> size[2], diffCount |-> count] :
               count \in {0, 1, DiffPixels, 207717, size[1] * size[2]}} :
           size \in ImageSizes}

PercentageInit ==
    /\ options \in [dirBaseline : {DirBaseline}, dirNew : {DirNew},
                    dirDiff : {Null, DirDiffGiven}]
    /\ pc = "accessBaseline"
    /\ listing = [baseline |-> Null, new |-> Null]
    /\ files = Null
    /\ jobs = <<>>
    /\ disk = {}
    /\ promise = ErrorChecks(options)
    /\ settled = <<>>
    /\ wait = Null
    /\ \E image \in {i \in Images : i.diffCount <= i.width * i.height} :
           env = [fixed |-> TRUE, baseline |-> <<A_JPG>>, new |-> <<A_JPG>>,
                  identical |-> IF image.diffCount = 0 THEN {A_JPG} ELSE {},
                  image |-> image, absent |-> "none"]
    /\ previous = <<>>
    /\ capture = Null
    /\ gen = Null

PercentageNext == Next

SpecPercentage == PercentageInit /\ [][PercentageNext]_vars

-----------------------------------------------------------------------------
(* One call of screenshot (src/functions/screenshot.js).  The function is   *)
(* async: it runs up to its next await, and the action of a Playwright      *)
(* operation that resolves runs it on to the following await.  An await     *)
(* that throws rejects the promise of the call.                             *)

\* Longest list of click steps.
MaxClicks == 2

\* A click step: 'waitAfter' in step, and its value (300 in the example of
\* the source).
ClickSteps ==
    {[hasWaitAfter |-> FALSE, waitAfter |-> 0],
     [hasWaitAfter |-> TRUE, waitAfter |-> 0],
     [hasWaitAfter |-> TRUE, waitAfter |-> 300]}

\* OPTIONS.el: null, or the selector of the element to capture.
ElementSelector == <<"#", "e", "l">>

\* A Playwright operation; `click` is the place of the click step in
\* OPTIONS.clicks for page.click and page.waitForTimeout, and 0 otherwise.
Op(name, click) == [op |-> name, click |-> click]

\* What a rejected Playwright operation throws.
ErrPlaywright(name) == <<"playwright", name>>

\* What screenshot resolves with.
ScreenshotResult(c) == [el |-> c.el, binary |-> "image"]

\* The call issues an operation and awaits it.
Issue(c, name, click) ==
    [c EXCEPT !.pending = name, !.issued = Append(@, Op(name, click))]

\* The operation the call awaits has resolved.
Completed(c) ==
    [c EXCEPT !.completed = Append(@, c.issued[Len(c.issued)])]

\* The executor of the promise screenshot returns: page.screenshot when
\* OPTIONS.el is null, page.waitForSelector otherwise.
StartCapture(c) ==
    IF c.el = Null THEN Issue(c, "screenshot", 0)
    ELSE Issue(c, "waitForSelector", 0)

\* pageClicks after the click and its wait: currentClick++, then the next
\* click step, or out of pageClicks to the capture.
AfterClick(c) ==
    LET next == [c EXCEPT !.currentClick = @ + 1]
    IN  IF next.currentClick < Len(next.clicks)
        THEN Issue(next, "click", next.currentClick + 1)
        ELSE StartCapture(next)

\* screenshot(options) has been called and awaits browserEngine.
ScreenshotInit ==
    /\ options = [dirBaseline |-> Null, dirNew |-> Null, dirDiff |-> Null]
    /\ pc = "screenshot"
    /\ listing = [baseline |-> Null, new |-> Null]
    /\ files = Null
    /\ jobs = <<>>
    /\ disk = {}
    /\ promise = Pending
    /\ settled = <<>>
    /\ wait = Null
    /\ env = AnyEnvironment
    /\ previous = <<>>
    /\ gen = Null
    /\ capture \in [clicks       : UNION {[1..n -> ClickSteps] : n \in 0..MaxClicks},
                    el           : {Null, ElementSelector},
                    pending      : {"launch"},
                    currentClick : {0},
                    issued       : {<<Op("launch", 0)>>},
                    completed    : {<<>>},
                    browser      : {"none"}]

\* await browserEngine(OPTIONS.engine)
LaunchResolves ==
    /\ pc = "screenshot"
    /\ capture.pending = "launch"
    /\ capture' = Issue([Completed(capture) EXCEPT !.browser = "open"], "newPage", 0)
    /\ UNCHANGED <<options, env, previous, gen, wait, pc, listing, files, jobs, disk,
                   promise, settled>>

\* await browser.newPage()
NewPageResolves ==
    /\ pc = "screenshot"
    /\ capture.pending = "newPage"
    /\ capture' = Issue(Completed(capture), "setViewportSize", 0)
    /\ UNCHANGED <<options, env, previous, gen, wait, pc, listing, files, jobs, disk,
                   promise, settled>>

\* await page.setViewportSize(...)
SetViewportSizeResolves ==
    /\ pc = "screenshot"
    /\ capture.pending = "setViewportSize"
    /\ capture' = Issue(Completed(capture), "goto", 0)
    /\ UNCHANGED <<options, env, previous, gen, wait, pc, listing, files, jobs, disk,
                   promise, settled>>

\* await page.goto(...): then the first click step, or the capture when
\* there is no click step.
GotoResolves ==
    /\ pc = "screenshot"
    /\ capture.pending = "goto"
    /\ capture' = IF Len(capture.clicks) > 0
                  THEN Issue(Completed(capture), "click", 1)
                  ELSE StartCapture(Completed(capture))
    /\ UNCHANGED <<options, env, previous, gen, wait, pc, listing, files, jobs, disk,
                   promise, settled>>

\* A pageClicks that goes on to the next step without the wait.
ClickResolvesSkipsWait ==
    /\ pc = "screenshot"
    /\ capture.pending = "click"
    /\ capture' = AfterClick(Completed(capture))
    /\ UNCHANGED <<options, env, previous, gen, wait, pc, listing, files, jobs, disk,
                   promise, settled>>

\* await page.click(...): then page.waitForTimeout when the step has a
\* waitAfter above 0.
ClickResolves ==
    /\ pc = "screenshot"
    /\ capture.pending = "click"
    /\ LET step == capture.clicks[capture.currentClick + 1]
       IN  capture' = IF step.hasWaitAfter /\ step.waitAfter > 0
                      THEN Issue(Completed(capture), "waitForTimeout",
                                 capture.currentClick + 1)
                      ELSE AfterClick(Completed(capture))
    /\ UNCHANGED <<options, env, previous, gen, wait, pc, listing, files, jobs, disk,
                   promise, settled>>

\* await page.waitForTimeout(...)
WaitForTimeoutResolves ==
    /\ pc = "screenshot"
    /\ capture.pending = "waitForTimeout"
    /\ capture' = AfterClick(Completed(capture))
    /\ UNCHANGED <<options, env, previous, gen, wait, pc, listing, files, jobs, disk,
                   promise, settled>>

\* page.waitForSelector(OPTIONS.el).then: element.screenshot
WaitForSelectorResolves ==
    /\ pc = "screenshot"
    /\ capture.pending = "waitForSelector"
    /\ capture' = Issue(Completed(capture), "screenshot", 0)
    /\ UNCHANGED <<options, env, previous, gen, wait, pc, listing, files, jobs, disk,
                   promise, settled>>

\* page.screenshot(...).then or element.screenshot(...).then: closes the
\* browser and resolves.
PageScreenshotResolves ==
    /\ pc = "screenshot"
    /\ capture.pending = "screenshot"
    /\ capture' = [Completed(capture) EXCEPT !.pending = "none", !.browser = "closed"]
    /\ promise' = Resolve(promise, ScreenshotResult(capture))
    /\ UNCHANGED <<options, env, previous, gen, wait, pc, listing, files, jobs, disk,
                   settled>>

\* An awaited operation rejects: the await throws and the promise of the
\* async function is rejected with the error.
AwaitRejects ==
    /\ pc = "screenshot"
    /\ capture.pending \in {"launch", "newPage", "setViewportSize", "goto", "click",
                            "waitForTimeout"}
    /\ capture' = [capture EXCEPT !.pending = "none"]
    /\ promise' = Reject(promise, ErrPlaywright(capture.pending))
    /\ UNCHANGED <<options, env, previous, gen, wait, pc, listing, files, jobs, disk,
                   settled>>

\* The catch handlers of the capture: reject(error).
CaptureRejects ==
    /\ pc = "screenshot"
    /\ capture.pending \in {"waitForSelector", "screenshot"}
    /\ capture' = [capture EXCEPT !.pending = "none"]
    /\ promise' = Reject(promise, ErrPlaywright(capture.pending))
    /\ UNCHANGED <<options, env, previous, gen, wait, pc, listing, files, jobs, disk,
                   settled>>

ScreenshotNext ==
    \/ LaunchResolves
    \/ NewPageResolves
    \/ SetViewportSizeResolves
    \/ GotoResolves
    \/ ClickResolves
    \/ WaitForTimeoutResolves
    \/ WaitForSelectorResolves
    \/ PageScreenshotResolves
    \/ AwaitRejects
    \/ CaptureRejects

SpecScreenshot == ScreenshotInit /\ [][ScreenshotNext]_vars


-----------------------------------------------------------------------------
(* Properties *)

Range(seq) == {seq[i] : i \in 1..Len(seq)}
NoDuplicates(seq) == \A i, j \in 1..Len(seq) : i # j => seq[i] # seq[j]
JobIds == 1..Len(jobs)
\* compareImages resolved after a fan-out (not through the empty-compare exit
\* alone, though that exit yields the same shape of value).
BatchResolved == pc = "comparing" /\ promise.state = "resolved"
\* diffImages of the job rejected with the error e.
RejectedWith(job, e) == job.step = "rejected" /\ job.value = e
\* The names of a list of outcomes, in order.
ImagesOf(outcomes) == [k \in 1..Len(outcomes) |-> ImageOf(outcomes[k])]

\* C1: for duplicate-free listings the matcher resolves with compare = the
\* names in both listings (exact string equality), missing = the names only
\* in new, outdated = the names only in baseline; the three lists are pairwise
\* disjoint, |compare| + |missing| = |new| and |compare| + |outdated| =
\* |baseline|.
C1_MatcherPartitions ==
    pc = "matched" =>
        /\ Range(files.compare) = Range(listing.baseline) \cap Range(listing.new)
        /\ Range(files.missing) = Range(listing.new) \ Range(listing.baseline)
        /\ Range(files.outdated) = Range(listing.baseline) \ Range(listing.new)
        /\ NoDuplicates(files.compare)
        /\ NoDuplicates(files.missing)
        /\ NoDuplicates(files.outdated)
        /\ Range(files.compare) \cap Range(files.missing) = {}
        /\ Range(files.compare) \cap Range(files.outdated) = {}
        /\ Range(files.missing) \cap Range(files.outdated) = {}
        /\ Len(files.compare) + Len(files.missing) = Len(listing.new)
        /\ Len(files.compare) + Len(files.outdated) = Len(listing.baseline)

\* a.jpg only in baseline, a.png only in new, and one name in both
C1_Witness ==
    /\ pc = "matched"
    /\ files.compare # <<>>
    /\ files.outdated = <<A_JPG>>
    /\ files.missing = <<A_PNG>>

\* C2: when compareImages resolves, every name of compare appears in exactly
\* one entry of passed or failed and no other name does, so that
\* passed.length + failed.length = compare.length.
C2_PassedFailedCoverCompare ==
    BatchResolved =>
        LET both == ImagesOf(promise.value.passed) \o ImagesOf(promise.value.failed)
        IN  /\ Len(both) = Len(files.compare)
            /\ \A i \in 1..Len(files.compare) :
                   Cardinality({k \in 1..Len(both) : both[k] = files.compare[i]}) = 1
            /\ Range(both) \subseteq Range(files.compare)

\* the scenario of the test: two comparable pairs, one passed and one failed
C2_Witness ==
    /\ BatchResolved
    /\ Len(files.compare) = 2
    /\ Len(promise.value.passed) = 1
    /\ Len(promise.value.failed) = 1

\* C3: when compareImages resolves, every passed entry has imagesAreSame =
\* true and diffImagePath = null, every failed entry has imagesAreSame = false
\* and diffImagePath = <diff directory>/<diff artifact name of the image>, and
\* the Diff Composer was invoked for exactly the images the differ reported
\* different.
C3_PassedFailedShape ==
    BatchResolved =>
        /\ \A k \in 1..Len(promise.value.passed) :
               /\ promise.value.passed[k].imagesAreSame
               /\ promise.value.passed[k].diffImagePath = Null
        /\ \A k \in 1..Len(promise.value.failed) :
               /\ ~promise.value.failed[k].imagesAreSame
               /\ promise.value.failed[k].diffImagePath # Null
               /\ promise.value.failed[k].diffImagePath =
                      <<IF options.dirDiff # Null THEN options.dirDiff
                                                   ELSE DirNew \o <<"diff">>,
                        pngExtension(ImageOf(promise.value.failed[k]))>>
        /\ \A i \in JobIds :
               jobs[i].composerCalled <=> ~jobs[i].imgDiffResult.imagesAreSame

\* a resolved batch with a passed and a failed image
C3_Witness ==
    /\ BatchResolved
    /\ promise.value.passed # <<>>
    /\ promise.value.failed # <<>>
    /\ \E i \in JobIds : jobs[i].composerCalled

\* C4: compareImages is all-or-nothing: once a comparison has rejected,
\* compareImages is rejected with the error of the comparison that rejected
\* first and never resolves with a partial result; it is resolved only when
\* every comparison of the compare list has resolved.
C4_AllOrNothing ==
    /\ BatchResolved => \A i \in JobIds : jobs[i].step = "resolved"
    /\ \A i \in JobIds :
           jobs[i].step = "rejected" =>
               /\ promise.state = "rejected"
               /\ \E k \in 1..Len(settled) :
                      /\ jobs[settled[k]].step = "rejected"
                      /\ \A m \in 1..(k - 1) : jobs[settled[m]].step # "rejected"
                      /\ promise.value = jobs[settled[k]].value

\* one comparison resolved, another rejected: the batch is rejected
C4_Witness ==
    /\ promise.state = "rejected"
    /\ \E i, j \in JobIds :
           /\ jobs[i].step = "resolved"
           /\ jobs[j].step = "rejected"
           /\ promise.value = jobs[j].value


\* No operation the call started is still outstanding: the listings, every
\* differ, every existence wait, every image join and every write of a
\* composed image have succeeded or failed.
NoOperationOutstanding ==
    /\ pc \in {"comparing", "done"}
    /\ \A i \in JobIds :
           /\ jobs[i].step \notin {"imgDiff", "fileExists", "createDiffImage", "joinImages"}
           /\ jobs[i].toFile # "pending"

\* C5: every call of compareImages resolves or rejects once every collaborator
\* operation it started has succeeded or failed; a collaborator failure never
\* leaves the promise pending for ever.
C5_SettledWhenOperationsDone ==
    NoOperationOutstanding => promise.state # "pending"

\* C6: for every comparison whose images differ, when diffImages (and hence
\* compareImages) resolves, the composed artifact at diffImagePath is already
\* on disk.
C6_ArtifactOnDiskAtResolve ==
    \A i \in JobIds :
        (jobs[i].step = "resolved" /\ ~jobs[i].imgDiffResult.imagesAreSame) =>
            jobs[i].value.diffImagePath \in disk

\* No other comparison of the batch uses a path of comparison i: the diff
\* directory is fresh as far as image i is concerned.
FreshFor(i) ==
    \A j \in JobIds \ {i} :
        {TempFile(jobs[j]), DistFile(jobs[j])} \cap
        {TempFile(jobs[i]), DistFile(jobs[i])} = {}

\* C7: whenever diffImages resolves, the temp diff file of that image is no
\* longer in the diff directory; when the differ reported the images
\* identical and the diff directory is fresh for the image, neither the temp
\* file nor an artifact of that image is there.
C7_NoTempFileAtResolve ==
    [][\A i \in JobIds :
           (jobs[i].step # "resolved" /\ jobs'[i].step = "resolved") =>
               /\ TempFile(jobs'[i]) \notin disk'
               /\ (jobs'[i].imgDiffResult.imagesAreSame /\ FreshFor(i)) =>
                      DistFile(jobs'[i]) \notin disk']_vars

\* the differ wrote its temp file for an identical and for a different image,
\* both comparisons resolved, and neither temp file is left
C7_Witness ==
    \E i, j \in JobIds :
        /\ jobs[i].step = "resolved"
        /\ jobs[i].imgDiffResult.imagesAreSame
        /\ jobs[i].tempWrite = "done"
        /\ TempFile(jobs[i]) \notin disk
        /\ DistFile(jobs[i]) \notin disk
        /\ jobs[j].step = "resolved"
        /\ ~jobs[j].imgDiffResult.imagesAreSame
        /\ jobs[j].tempWrite = "done"
        /\ TempFile(jobs[j]) \notin disk

\* C8: the temp diff file is cleaned up regardless of outcome: after
\* diffImages has settled in any way, no temp diff file of that comparison
\* remains in the diff directory.
C8_NoTempFileAfterSettled ==
    \A i \in JobIds :
        jobs[i].step \in {"resolved", "rejected"} => TempFile(jobs[i]) \notin disk

\* C9: the differ is invoked for all n names of compare before any comparison
\* completes, and whatever the order of the completions the resolved passed
\* and failed lists hold the names of compare with that verdict, in the order
\* of compare.
C9_FanOutOrderIndependent ==
    /\ pc = "comparing" =>
           /\ Len(jobs) = Len(files.compare)
           /\ \A i \in JobIds : jobs[i].imageName = files.compare[i]
    /\ (\E i \in JobIds : jobs[i].step # "imgDiff") =>
           Len(jobs) = Len(files.compare)
    /\ BatchResolved =>
           LET same == SelectSeq(jobs, LAMBDA j : j.imgDiffResult.imagesAreSame)
               diff == SelectSeq(jobs, LAMBDA j : ~j.imgDiffResult.imagesAreSame)
           IN  /\ ImagesOf(promise.value.passed) = [k \in 1..Len(same) |-> same[k].imageName]
               /\ ImagesOf(promise.value.failed) = [k \in 1..Len(diff) |-> diff[k].imageName]

\* the second comparison completed before the first, and the batch resolved
\* with two entries in one list
C9_Witness ==
    /\ BatchResolved
    /\ Len(jobs) >= 2
    /\ settled[1] # 1
    /\ \/ Len(promise.value.passed) >= 2
       \/ Len(promise.value.failed) >= 2

\* C10: within one compareImages call any two distinct names of compare map
\* to different diff artifact paths in the shared diff directory.
C10_DistinctArtifacts ==
    \A i, j \in JobIds :
        i # j => DistFile(jobs[i]) # DistFile(jobs[j])

\* C11: the temp diff file of an image is in the diff directory and its name
\* is the source name with the segment `temp` inserted immediately before the
\* final dot-separated segment; two distinct names of one compareImages call
\* never get the same temp file path.
C11_TempNamesInjective ==
    pc = "matched" =>
        /\ \A i \in JobIds :
               LET source == SplitDot(jobs[i].imageName)
                   temp   == SplitDot(TempFile(jobs[i])[2])
               IN  /\ TempFile(jobs[i])[1] = jobs[i].dirDiff
                   /\ Len(temp) = Len(source) + 1
                   /\ temp[Len(temp)] = source[Len(source)]
                   /\ temp[Len(temp) - 1] = TEMP
                   /\ SubSeq(temp, 1, Len(temp) - 2) = SubSeq(source, 1, Len(source) - 1)
        /\ \A i, j \in JobIds :
               jobs[i].imageName # jobs[j].imageName =>
                   TempFile(jobs[i]) # TempFile(jobs[j])

\* a.jpg and a.png, which differ in the last segment only, are compared in
\* one call and get a.temp.jpg and a.temp.png
C11_Witness ==
    /\ pc = "matched"
    /\ \E i, j \in JobIds :
           /\ jobs[i].imageName = A_JPG
           /\ jobs[j].imageName = A_PNG
           /\ TempFile(jobs[i])[2] = <<"a", ".", "t", "e", "m", "p", ".", "j", "p", "g">>
           /\ TempFile(jobs[j])[2] = <<"a", ".", "t", "e", "m", "p", ".", "p", "n", "g">>

\* C12: concurrent compareImages calls on the same directories and names are
\* not safe.  A call whose differ, existence wait and image join all
\* succeeded is rejected because the temp diff file is gone when it is about
\* to delete it, and that happens only when another call has deleted the
\* file: never to a call that runs alone.
C12_OnlyAnotherCallRemovesTheTempFile ==
    \A c \in JobIds :
        RejectedWith(jobs[c], ErrUnlink(TempFile(jobs[c]))) =>
            \E d \in JobIds \ {c} :
                /\ jobs[d].step = "resolved"
                /\ TempFile(jobs[d]) = TempFile(jobs[c])

\* two calls: the differ of both wrote the temp file, the join of both
\* succeeded, one call deleted the file and resolved, the other is rejected
C12_Witness ==
    \E c, d \in JobIds :
        /\ c # d
        /\ jobs[c].tempWrite = "done"
        /\ jobs[c].toFile # "none"
        /\ RejectedWith(jobs[c], ErrUnlink(TempFile(jobs[c])))
        /\ CallPromise(c).state = "rejected"
        /\ jobs[d].tempWrite = "done"
        /\ CallPromise(d).state = "resolved"

\* C13: when the compare list is empty, compareImages resolves with passed =
\* [] and failed = [], with the matcher's missing and outdated lists, which
\* then hold all names of the new and all names of the baseline directory;
\* no diffImages call is started (no differ invoked) and nothing is written
\* to the diff directory.
C13_EmptyCompareResolves ==
    (pc = "matched" /\ files.compare = <<>>) =>
        /\ promise.state = "resolved"
        /\ promise.value = [passed   |-> <<>>,
                            failed   |-> <<>>,
                            missing  |-> files.missing,
                            outdated |-> files.outdated]
        /\ files.missing = listing.new
        /\ files.outdated = listing.baseline
        /\ jobs = <<>>
        /\ disk = {}

\* an empty baseline directory and two images in the new directory
C13_Witness ==
    /\ pc = "matched"
    /\ listing.baseline = <<>>
    /\ Len(listing.new) = 2
    /\ promise.state = "resolved"
    /\ promise.value.missing = listing.new
    /\ promise.value.passed = <<>>

\* C14: when the pixel differ rejects with an error e for an image,
\* diffImages rejects with exactly e (and compareImages with e, when it is
\* the first rejection of the batch); for that image no existence poll is
\* started, the Diff Composer is not invoked and no deletion of the temp file
\* is attempted.
C14_DifferFailureSurfacesUnchanged ==
    \A i \in JobIds :
        jobs[i].tempWrite = "none" =>
            /\ RejectedWith(jobs[i], ErrImgDiff(jobs[i].imageName))
            /\ ~jobs[i].polled
            /\ ~jobs[i].composerCalled
            /\ ~jobs[i].unlinkCalled
            /\ jobs[i].toFile = "none"
            /\ promise.state = "rejected"
            /\ settled[1] = i => promise.value = ErrImgDiff(jobs[i].imageName)

\* the differ failed for one image after another image had resolved:
\* compareImages is rejected with the differ's error
C14_Witness ==
    \E i, j \in JobIds :
        /\ jobs[i].tempWrite = "none"
        /\ jobs[i].value = ErrImgDiff(jobs[i].imageName)
        /\ promise.state = "rejected"
        /\ promise.value = ErrImgDiff(jobs[i].imageName)
        /\ jobs[j].step = "resolved"

\* Both directories are given.
DirectoriesGiven == options.dirBaseline # Null /\ options.dirNew # Null

\* C15: when listing the baseline or the new directory fails,
\* compareImageDirectories and compareImages reject with the error of the
\* Directory Lister, unchanged; no diffImages call is started (no pixel
\* differ invoked) and nothing is written to the diff directory in that call.
C15_ListerErrorUnchanged ==
    [][DirectoriesGiven =>
          /\ pc' = "done" => (files' = Null /\ jobs' = <<>> /\ disk' = {})
          /\ (pc # "done" /\ pc' = "done") =>
                 LET dir == IF pc \in {"accessBaseline", "readdirBaseline"}
                            THEN options.dirBaseline ELSE options.dirNew
                 IN  /\ promise'.state = "rejected"
                     /\ promise'.value =
                            IF pc \in {"accessBaseline", "accessNew"}
                            THEN ErrDirectoryNotFound(dir)
                            ELSE ErrDirectoryRead(dir)]_vars

\* the baseline directory was listed, then the access check of the new
\* directory failed
C15_Witness ==
    /\ DirectoriesGiven
    /\ pc = "done"
    /\ listing.baseline # <<>>
    /\ promise.state = "rejected"
    /\ promise.value = ErrDirectoryNotFound(options.dirNew)

\* C16: when dirBaseline or dirNew is absent, compareImageDirectories and
\* compareImages reject with the error that names the missing option (the
\* first one checked), and nothing else of the call is carried out: no
\* access check of a directory completes and no directory is listed.
C16_ValidationShortCircuits ==
    ~DirectoriesGiven =>
        /\ promise.state = "rejected"
        /\ promise.value = ErrNotSet(IF options.dirBaseline = Null
                                     THEN "dirBaseline" ELSE "dirNew")
        /\ pc \in {"accessBaseline", "done"}
        /\ listing.baseline = Null

\* C17: fileExists rejects with the timeout error only if no poll found the
\* file: when the file was there at the time a poll was issued or carried
\* out (a poll of a tick before the one that reaches the timeout), the wait
\* is not rejected,
\* whatever the order of the fs.stat callbacks and the ticks.
C17_ExistingFileNeverReportedMissing ==
    promise.state = "rejected" =>
        \A k \in 1..Len(wait.stats) :
            (wait.stats[k].atIssue \/ wait.stats[k].found) => wait.stats[k].final

\* C18: the wait is paced by its options: the k-th poll is issued no earlier
\* than k intervals after the call, at most timeout/interval polls (rounded
\* up) are issued, and the timeout rejection comes no earlier than `timeout`
\* milliseconds after the call.
C18_WaitPacedByOptions ==
    /\ wait.elapsed >= Len(wait.stats) * wait.interval
    /\ (Len(wait.stats) - 1) * wait.interval < wait.timeout
    /\ promise.state = "rejected" => wait.elapsed >= wait.timeout

\* joinImages has been called for the job.
JoinCalled(job) == job.step \in {"joinImages", "unsettled"} \/ job.toFile # "none"

\* C19: createDiffImage calls the image join only when the existence of the
\* three source paths has been verified: the waits for two of them have
\* resolved and the callback that calls the join belongs to an fs.stat that
\* found the third (no image is absent, and in one call the raw diff is
\* still on disk).  When one of them never appears createDiffImage rejects
\* with a 'Cannot create diff image' error that wraps the missing-file error
\* naming the path of a wait that had not resolved, the join is never called
\* and the composed image is never written.
C19_JoinOnlyAfterSourcesVerified ==
    [][\A i \in JobIds :
           /\ (~JoinCalled(jobs[i]) /\ JoinCalled(jobs'[i])) =>
                  /\ jobs[i].step = "createDiffImage"
                  /\ \E source \in SourceNames :
                         /\ jobs[i].verified = SourceNames \ {source}
                         /\ Found(jobs[i], source)
                  /\ jobs[i].seen
                  /\ env.absent = "none"
                  /\ TempFile(jobs[i]) \in disk
           /\ (jobs[i].step = "createDiffImage" /\ jobs'[i].step = "rejected") =>
                  \E source \in SourceNames \ jobs[i].verified :
                      jobs'[i].value = ErrCannotCreateDiffImage(ErrFileNotFound(
                          IF source = "baseline"
                          THEN Path(options.dirBaseline, jobs[i].imageName)
                          ELSE IF source = "new"
                          THEN Path(options.dirNew, jobs[i].imageName)
                          ELSE Path(jobs[i].dirDiff, tempFileName(jobs[i].imageName))))
           /\ (jobs[i].step = "rejected" /\ ~JoinCalled(jobs[i])) =>
                  ~JoinCalled(jobs'[i])
           /\ env.absent # "none" =>
                  /\ ~JoinCalled(jobs'[i])
                  /\ jobs'[i].step # "resolved" \/ jobs'[i].imgDiffResult.imagesAreSame
                  /\ DistFile(jobs'[i]) \notin disk']_vars

\* the new image of a comparison was removed after the differ had read it:
\* the call is rejected with the wrapped error that names the new image, the
\* join was not called and nothing was composed, while the comparison of
\* identical images resolved
C19_Witness ==
    /\ env.absent = "new"
    /\ \E i, j \in JobIds :
           /\ jobs[i].composerCalled
           /\ RejectedWith(jobs[i], ErrCannotCreateDiffImage(ErrFileNotFound(
                                        Path(DirNew, jobs[i].imageName))))
           /\ ~JoinCalled(jobs[i])
           /\ DistFile(jobs[i]) \notin disk
           /\ jobs[j].step = "resolved"

\* The name without its final extension (the whole name when it has none).
Stem(name) ==
    LET parts == SplitDot(name)
    IN  IF Len(parts) = 1 THEN name ELSE JoinDot(SubSeq(parts, 1, Len(parts) - 1))
\* The final extension of the name, in lower case (Null when it has none).
Extension(name) ==
    LET parts == SplitDot(name)
    IN  IF Len(parts) = 1 THEN Null ELSE LowerSeq(parts[Len(parts)])

\* C20: diff artifacts are always PNG: for every compared image the diff
\* artifact name is the source name with a final .jpg or .jpeg, in any letter
\* case, rewritten to .png, and the source name itself for a .png source; it
\* ends in a png extension and keeps the base name of the source.
C20_ArtifactsArePng ==
    pc = "matched" =>
        \A i \in JobIds :
            /\ Extension(jobs[i].imageName) \in {JPG, JPEG} =>
                   jobs[i].diffImageName = Stem(jobs[i].imageName) \o DOT_PNG
            /\ Extension(jobs[i].imageName) = PNG =>
                   jobs[i].diffImageName = jobs[i].imageName
            /\ Extension(DistFile(jobs[i])[2]) = PNG
            /\ Stem(DistFile(jobs[i])[2]) = Stem(jobs[i].imageName)

\* The names a resolved value of compareImages puts in each of its lists.
Classification(value) ==
    [passed   |-> ImagesOf(value.passed),
     failed   |-> ImagesOf(value.failed),
     missing  |-> value.missing,
     outdated |-> value.outdated]

\* C21: compareImages run twice on unchanged directories, each time with an
\* empty diff directory and with a differ whose verdict depends on the image
\* only, resolves both times with the same names in passed, failed, missing
\* and outdated.
C21_ClassificationIsStable ==
    (previous # <<>> /\ pc = "comparing" /\ promise.state = "resolved") =>
        Classification(promise.value) = Classification(previous[1])

\* both runs resolved with one image in passed and one in failed, and the
\* second run composed its artifact
C21_Witness ==
    /\ previous # <<>>
    /\ pc = "comparing"
    /\ promise.state = "resolved"
    /\ Len(promise.value.passed) = 1
    /\ Len(promise.value.failed) = 1
    /\ \E i \in JobIds : jobs[i].toFile = "written"

\* generateImages was called with a non-empty array under imagesConfig.
ValidConfig == gen.input.call = "options" /\ gen.input.kind = "array" /\ Len(gen.input.given) >= 1
\* The capture jobs that are in flight.
Running == {i \in 1..Len(gen.shots) : gen.shots[i].step = "running"}
\* The capture jobs that have resolved or rejected.
Done == {i \in 1..Len(gen.shots) : gen.shots[i].step \in {"resolved", "rejected"}}

\* C22: with two or more jobs, right after the call: serial = true has one
\* job in flight (sequential) and serial = false all of them (concurrent),
\* whatever the host; with serial not set all jobs are in flight if and only
\* if the host has at least 4 cores, a clock above 2500 and at least 8096 MB
\* of free memory, and one job otherwise.
C22_ModeSelection ==
    (pc = "generating" /\ ValidConfig /\ Len(gen.input.given) >= 2 /\ gen.order = <<>>) =>
        LET concurrent == Running = 1..Len(gen.input.given)
            sequential == Running = {1}
        IN  /\ concurrent \/ sequential
            /\ gen.input.serial = "true" => sequential
            /\ gen.input.serial = "false" => concurrent
            /\ gen.input.serial = "null" =>
                   (concurrent <=> /\ gen.host.cpuCores >= 4
                                   /\ gen.host.cpuSpeed > 2500
                                   /\ gen.host.freeRam >= 8096)

\* serial not set on a capable host: both jobs in flight; the same host with
\* a clock of exactly 2500 is covered by the sequential case
C22_Witness ==
    /\ pc = "generating"
    /\ ValidConfig
    /\ gen.input.serial = "null"
    /\ gen.host = [cpuCores |-> 4, cpuSpeed |-> 2501, freeRam |-> 8096]
    /\ Running = {1, 2}

\* C23: in serial mode the capture jobs are started in array order, each
\* once, with at most one in flight: job i + 1 is started only after job i
\* has resolved or rejected, and it is started whether or not earlier jobs
\* failed.
C23_SerialInOrderOneAtATime ==
    (pc = "generating" /\ gen.mode = "series") =>
        /\ \A k \in 1..Len(gen.started) : gen.started[k] = k
        /\ Cardinality(Running) <= 1
        /\ \A i \in 1..Len(gen.shots) :
               /\ gen.shots[i].step # "idle" <=> i <= Len(gen.started)
               /\ gen.shots[i].step # "idle" => (1..(i - 1)) \subseteq Done
               /\ (1..(i - 1)) \subseteq Done => gen.shots[i].step # "idle"

\* the first job rejected and the second was started after it
C23_Witness ==
    /\ pc = "generating"
    /\ gen.mode = "series"
    /\ ValidConfig
    /\ Len(gen.shots) = 2
    /\ gen.shots[1].step = "rejected"
    /\ gen.shots[2].step = "running"
    /\ gen.started = <<1, 2>>

\* The outcomes of the capture jobs that resolved (ok) or rejected (~ok), in
\* job order.
OutcomesInJobOrder(ok) ==
    LET chosen == SelectSeq(gen.shots,
                            LAMBDA shot : shot.step = (IF ok THEN "resolved" ELSE "rejected"))
    IN  [k \in 1..Len(chosen) |-> chosen[k].value]

\* C24: in serial mode generateImages settles only when every job has been
\* attempted (and not later); it resolves with the results of all jobs in
\* job order if and only if no job failed, and otherwise rejects with the
\* list of the errors of exactly the failed jobs, in job order.
C24_SerialAggregates ==
    (pc = "generating" /\ gen.mode = "series" /\ ValidConfig) =>
        /\ promise.state # "pending" <=> Done = 1..Len(gen.shots)
        /\ promise.state = "resolved" <=>
               \A i \in 1..Len(gen.shots) : gen.shots[i].step = "resolved"
        /\ promise.state = "resolved" =>
               promise.value = ArrayOf([i \in 1..Len(gen.shots) |-> ShotResult(i)])
        /\ promise.state = "rejected" =>
               /\ promise.value = ArrayOf(OutcomesInJobOrder(FALSE))
               /\ promise.value.items # <<>>

\* two jobs, the first failed and the second succeeded: rejected with the
\* one error, after the second job
C24_Witness ==
    /\ pc = "generating"
    /\ gen.mode = "series"
    /\ ValidConfig
    /\ Len(gen.shots) = 2
    /\ gen.shots[1].step = "rejected"
    /\ gen.shots[2].step = "resolved"
    /\ promise.state = "rejected"
    /\ promise.value = ArrayOf(<<ShotError(1)>>)

\* What holds of a parallel call with a valid configuration array: every job
\* is started by the call itself, the promise resolves exactly when all jobs
\* resolved, with the results in job order, and it is rejected as soon as
\* one job is rejected.
ParallelJoinsAll ==
    (pc = "generating" /\ gen.mode = "parallel" /\ ValidConfig) =>
        /\ gen.started = [k \in 1..Len(gen.shots) |-> k]
        /\ \A i \in 1..Len(gen.shots) : gen.shots[i].step # "idle"
        /\ promise.state = "resolved" <=>
               \A i \in 1..Len(gen.shots) : gen.shots[i].step = "resolved"
        /\ promise.state = "resolved" =>
               promise.value = ArrayOf([i \in 1..Len(gen.shots) |-> ShotResult(i)])
        /\ promise.state = "rejected" <=>
               \E i \in 1..Len(gen.shots) : gen.shots[i].step = "rejected"

\* The capture job that was the first to reject.
FirstRejected ==
    LET at == {k \in 1..Len(gen.order) : gen.shots[gen.order[k]].step = "rejected"}
    IN  gen.order[CHOOSE k \in at : \A other \in at : k <= other]

\* C25 (as stated): in parallel mode every capture job is launched before
\* any of them completes; the call resolves only when all jobs succeeded,
\* with the results in job order whatever the completion order; it rejects
\* at the first rejection, and the failure is reported as an aggregate error
\* list.
C25_ParallelJoinAllAggregateErrors ==
    /\ ParallelJoinsAll
    /\ (pc = "generating" /\ gen.mode = "parallel" /\ ValidConfig
           /\ promise.state = "rejected") =>
          promise.value.type = "Array"

\* C25 (amended): as above, but the rejection carries the single error of
\* the job that rejected first, not a list.
C25_ParallelJoinAllFirstError ==
    /\ ParallelJoinsAll
    /\ (pc = "generating" /\ gen.mode = "parallel" /\ ValidConfig
           /\ promise.state = "rejected") =>
          promise.value = SingleError(ShotError(FirstRejected))

\* the second of two jobs completed first and the first then rejected: the
\* call is rejected with the error of job 1 alone
C25_Witness ==
    /\ pc = "generating"
    /\ gen.mode = "parallel"
    /\ ValidConfig
    /\ gen.order = <<2, 1>>
    /\ gen.shots[2].step = "resolved"
    /\ promise.state = "rejected"
    /\ promise.value = SingleError(ShotError(1))

\* C26: when imagesConfig is missing, not an array or an empty array,
\* generateImages rejects with the configuration error and no capture job
\* is started.
C26_InvalidConfigurationStartsNothing ==
    (pc = "generating" /\ gen.input.call = "options" /\ ~ValidConfig) =>
        /\ promise.state = "rejected"
        /\ promise.value = SingleError(ConfigError)
        /\ gen.started = <<>>
        /\ \A i \in 1..Len(gen.shots) : gen.shots[i].step = "idle"

\* C27: generateImages called with a non-empty array of configuration
\* objects as its argument starts one capture job per element and, when
\* these have succeeded, resolves with their results.
C27_ArrayArgumentIsCaptured ==
    (pc = "generating" /\ gen.input.call = "array") =>
        /\ Len(gen.shots) = Len(gen.input.given)
        /\ promise.state # "rejected"
        /\ gen.started # <<>>

\* getImageNames(dirBaseline) has resolved and its result is in scope.
BaselineListed == pc \in {"accessNew", "readdirNew"}
\* The name ends in the extension .jpg, .jpeg or .png, in any letter case.
HasImageExtension(name) == Extension(name) \in {JPG, JPEG, PNG}

\* The outcomes of a resolved call, passed and failed together.
Outcomes ==
    IF BatchResolved THEN Range(promise.value.passed) \cup Range(promise.value.failed)
    ELSE {}
\* 100 as a Number: 100 = (100 * 2^46) * 2^(6 - 52).
Hundred == [exp |-> 6, hi |-> 100 * Pow2(19), lo |-> 0]
\* x <= y for Numbers that are not negative.
AtMost(x, y) ==
    \/ x.hi = 0
    \/ /\ y.hi # 0
       /\ \/ x.exp < y.exp
          \/ x.exp = y.exp /\ x.hi < y.hi
          \/ x.exp = y.exp /\ x.hi = y.hi /\ x.lo <= y.lo
\* x and y are the same Number or neighbours: at most one unit in the last
\* place apart.
WithinOneUlp(x, y) ==
    \/ x = y
    \/ NextUp(x) = y
    \/ NextUp(y) = x

\* What holds of the percentage of every outcome: it is 0 when diffCount is
\* 0, it is the correctly rounded 100 * diffCount / (width * height) or a
\* neighbour of it, it is not negative, and it is about 7.0845 for 207717
\* differing pixels of 800 x 3665: between 7.08445 and 7.08455, which for a
\* Number with exponent 2 are the bounds 59428674 / 2^23 and 59429512 / 2^23
\* on the 26 high bits of its significand.
PercentageToOneUlp ==
    \A r \in Outcomes :
        /\ r.diffCount = 0 => r.diffPercentage = Zero
        /\ r.diffCount > 0 =>
               WithinOneUlp(r.diffPercentage,
                            Divide(100 * r.diffCount, r.width * r.height))
        /\ AtMost(Zero, r.diffPercentage)
        /\ (r.diffCount = 207717 /\ r.width = 800 /\ r.height = 3665) =>
               /\ r.diffPercentage.exp = 2
               /\ r.diffPercentage.hi >= 59428674
               /\ r.diffPercentage.hi < 59429512

\* C31: every outcome in passed and failed carries diffPercentage =
\* 100 * diffCount / (width * height), to the precision of a Number: it is
\* 0 when diffCount is 0, about 7.0845 for 207717 differing pixels of
\* 800 x 3665, and it lies between 0 and 100 whenever 0 <= diffCount <=
\* width * height with width * height > 0.
C31_PercentageOfDifferingPixels ==
    /\ PercentageToOneUlp
    /\ \A r \in Outcomes :
           (r.diffCount <= r.width * r.height /\ r.width * r.height > 0) =>
               /\ AtMost(Zero, r.diffPercentage)
               /\ AtMost(r.diffPercentage, Hundred)

\* C28: called without an extension, getImageNames returns exactly the
\* directory entries whose name ends in .jpg, .jpeg or .png (letters compared
\* without case), in listing order, and no other entry.
C28_ListsExactlyTheImageExtensions ==
    BaselineListed =>
        listing.baseline = SelectSeq(env.baseline, HasImageExtension)

\* What holds of the outcome of the Directory Lister: a failed access check
\* rejects with DirectoryNotFound, a failed read after a passed access check
\* with DirectoryReadError, the directory is read only after its access
\* check passed, and a directory that was read yields a success, also when
\* it is empty or none of its entries is listed.
ListerOutcomeClassified ==
    [][/\ (pc \in {"accessBaseline", "accessNew"} /\ pc' = "done") =>
              promise' = Rejected(ErrDirectoryNotFound(
                             IF pc = "accessBaseline" THEN options.dirBaseline
                                                      ELSE options.dirNew))
       /\ (pc \in {"readdirBaseline", "readdirNew"} /\ pc' = "done") =>
              promise' = Rejected(ErrDirectoryRead(
                             IF pc = "readdirBaseline" THEN options.dirBaseline
                                                       ELSE options.dirNew))
       /\ (pc' = "readdirBaseline" /\ pc # pc') => pc = "accessBaseline"
       /\ (pc' = "readdirNew" /\ pc # pc') => pc = "accessNew"
       /\ (pc = "readdirBaseline" /\ pc' # "done" /\ pc' # pc) =>
              /\ promise'.state = "pending"
              /\ pc' = "accessNew"
              /\ (\A k \in 1..Len(env.baseline) : ~IsListedImage(env.baseline[k])) =>
                     listing'.baseline = <<>>
      ]_vars

\* C29: the outcome of the Directory Lister is DirectoryNotFound when the
\* access check fails, DirectoryReadError when the access check passes and
\* the read fails, and otherwise a success, which is the empty list when the
\* directory is empty or holds no file with the extension .jpg, .jpeg or
\* .png; the directory is read only after the access check succeeded.
C29_ListerOutcome ==
    /\ ListerOutcomeClassified
    /\ [](BaselineListed =>
            /\ promise.state # "rejected"
            /\ (\A k \in 1..Len(env.baseline) : ~HasImageExtension(env.baseline[k])) =>
                   listing.baseline = <<>>)

\* The orderings of a duplicate-free listing.
Orderings(list) ==
    {p \in [1..Len(list) -> Range(list)] : Range(p) = Range(list)}
\* `part` keeps some entries of the duplicate-free listing `list`, in the
\* order of `list`.
IsSubsequence(part, list) ==
    part = SelectSeq(list, LAMBDA name : name \in Range(part))

\* C30: compare and missing are subsequences of the new directory's
\* listing and outdated is a subsequence of the baseline directory's
\* listing; under any reordering of either listing the three lists keep
\* their members.
C30_ListingOrderKeptMembershipOrderFree ==
    pc = "matched" =>
        /\ IsSubsequence(files.compare, listing.new)
        /\ IsSubsequence(files.missing, listing.new)
        /\ IsSubsequence(files.outdated, listing.baseline)
        /\ \A filesBaseline \in Orderings(listing.baseline) :
           \A filesNew \in Orderings(listing.new) :
               LET other == compareImageDirectories(filesBaseline, filesNew)
               IN  /\ Range(other.compare) = Range(files.compare)
                   /\ Range(other.missing) = Range(files.missing)
                   /\ Range(other.outdated) = Range(files.outdated)

\* both directories hold the same two images, listed in opposite orders:
\* both are compared, in the order of the new directory
C30_Witness ==
    /\ pc = "matched"
    /\ listing.baseline = <<A_JPG, B_JPG>>
    /\ listing.new = <<B_JPG, A_JPG>>
    /\ files.compare = <<B_JPG, A_JPG>>
    /\ files.missing = <<>>
    /\ files.outdated = <<>>

\* C32: every outcome compareImages returns, in passed or in failed, has
\* the same set of fields and names the compared file under testedImage.
C32_OutcomesShareTheirFields ==
    \A r \in Outcomes :
        /\ "testedImage" \in DOMAIN r
        /\ r.testedImage \in Range(files.compare)
        /\ \A other \in Outcomes : DOMAIN other = DOMAIN r

\* The click step has a waitAfter above 0.
NeedsWait(step) == step.hasWaitAfter /\ step.waitAfter > 0
\* The click operations the call has issued, in the order it issued them.
ClicksIssued == SelectSeq(capture.issued, LAMBDA o : o.op = "click")
\* The call has come to the capture itself.
CaptureStarted ==
    \E p \in 1..Len(capture.issued) : capture.issued[p].op \in {"screenshot", "waitForSelector"}

\* C33: the click steps are applied in list order before the capture: each
\* click is issued once; click i + 1 is issued only after click i has
\* completed and, when its waitAfter is above 0 (and only then), after its
\* wait has completed; the capture is started only after the last click
\* step has completed.
C33_ClicksInOrderBeforeCapture ==
    pc = "screenshot" =>
        /\ ClicksIssued = [k \in 1..Len(ClicksIssued) |-> Op("click", k)]
        /\ Len(ClicksIssued) <= Len(capture.clicks)
        /\ Len(capture.issued) - Len(capture.completed) <= 1
        /\ capture.completed = SubSeq(capture.issued, 1, Len(capture.completed))
        /\ CaptureStarted => Len(ClicksIssued) = Len(capture.clicks)
        /\ \A p \in 2..Len(capture.issued) :
               LET this == capture.issued[p]
                   prev == capture.issued[p - 1]
               IN  /\ this.op = "waitForTimeout" =>
                          /\ prev = Op("click", this.click)
                          /\ NeedsWait(capture.clicks[this.click])
                   /\ (this.op = "click" /\ this.click > 1) =>
                          IF NeedsWait(capture.clicks[this.click - 1])
                          THEN prev = Op("waitForTimeout", this.click - 1)
                          ELSE prev = Op("click", this.click - 1)
                   /\ (this.op \in {"screenshot", "waitForSelector"}
                          /\ prev.op # "waitForSelector" /\ Len(capture.clicks) > 0) =>
                          IF NeedsWait(capture.clicks[Len(capture.clicks)])
                          THEN prev = Op("waitForTimeout", Len(capture.clicks))
                          ELSE prev = Op("click", Len(capture.clicks))

\* two click steps, the first with a wait of 300 ms and the second with
\* none, and the page captured after them
C33_Witness ==
    /\ pc = "screenshot"
    /\ Len(capture.clicks) = 2
    /\ NeedsWait(capture.clicks[1])
    /\ ~NeedsWait(capture.clicks[2])
    /\ capture.issued = <<Op("launch", 0), Op("newPage", 0), Op("setViewportSize", 0),
                          Op("goto", 0), Op("click", 1), Op("waitForTimeout", 1),
                          Op("click", 2), Op("screenshot", 0)>>
    /\ capture.completed = capture.issued
    /\ promise.state = "resolved"

\* C37: every browser a screenshot call launched is closed in the end, on
\* every outcome: once the call awaits nothing more, its browser is not
\* left open.
C37_BrowserClosedOnEveryOutcome ==
    (pc = "screenshot" /\ capture.pending = "none") => capture.browser # "open"

\* What holds of the browser: it is closed when the capture has succeeded.
BrowserClosedOnSuccess ==
    (pc = "screenshot" /\ promise.state = "resolved") => capture.browser = "closed"

\* C34: a batch cannot be aborted.  The step in which compareImages rejects
\* changes the failed comparison alone and cancels no other; after it every
\* other comparison can still take its next step, so that temp files are
\* still deleted and artifacts still written once compareImages has
\* rejected.
C34_RejectedBatchRunsOn ==
    /\ [][(pc = "comparing" /\ promise.state = "pending" /\ promise'.state = "rejected") =>
            \E i \in JobIds :
                /\ jobs'[i].step = "rejected"
                /\ \A j \in JobIds \ {i} : jobs'[j] = jobs[j]]_vars
    /\ []((pc = "comparing" /\ promise.state = "rejected") =>
            \A j \in JobIds :
                /\ jobs[j].step = "imgDiff" => ENABLED ImgDiffResolves(j)
                /\ jobs[j].tempWrite = "pending" => ENABLED ImgDiffWritesTemp(j)
                /\ (jobs[j].step = "fileExists" /\ TempFile(jobs[j]) \in disk) =>
                       ENABLED FileExistsStat(j) \/ ENABLED FileExistsResolves(j)
                /\ (jobs[j].step = "createDiffImage" /\ TempFile(jobs[j]) \in disk) =>
                       \/ ENABLED SourcesStat(j)
                       \/ ENABLED SourceVerified(j)
                       \/ ENABLED SourcesExist(j)
                /\ jobs[j].step = "joinImages" => ENABLED JoinImagesResolves(j)
                /\ jobs[j].toFile = "pending" => ENABLED ToFileWrites(j))

\* the first comparison failed and compareImages rejected; the second then
\* ran to its end: its temp file was deleted and its artifact written
C34_Witness ==
    /\ pc = "comparing"
    /\ promise.state = "rejected"
    /\ Len(jobs) = 2
    /\ settled = <<1, 2>>
    /\ jobs[1].step = "rejected"
    /\ jobs[2].step = "resolved"
    /\ jobs[2].unlinkCalled
    /\ jobs[2].toFile = "written"
    /\ DistFile(jobs[2]) \in disk
    /\ TempFile(jobs[2]) \notin disk

\* C35: once generateImages has run its executor, every capture job, started
\* or not, carries debug = Boolean(options.debug) when options.debug is not
\* null and path = options.path when options.path is not null; a field
\* whose override is null, and every other field, is as the caller wrote it.
C35_OverridesReachEveryJob ==
    pc = "generating" =>
        \A i \in 1..Len(gen.shots) :
            LET given == gen.input.given[i]
                job   == gen.shots[i].config
            IN  /\ job.name = given.name
                /\ job.debug = IF gen.input.debug = "null" THEN given.debug
                               ELSE IF gen.input.debug \in {"true", "text"} THEN "true"
                               ELSE "false"
                /\ job.debug \in {"true", "false"}
                /\ job.path = IF gen.input.path = Null THEN given.path
                              ELSE gen.input.path

\* a series of two jobs with both overrides, debug given as a string: the
\* first job runs, the second has not started and carries the overrides
C35_Witness ==
    /\ pc = "generating"
    /\ gen.input.debug = "text"
    /\ gen.input.path = <<"temp", "new">>
    /\ gen.mode = "series"
    /\ Len(gen.shots) = 2
    /\ gen.shots[1].step = "running"
    /\ gen.shots[2].step = "idle"
    /\ gen.shots[1].config.debug = "true"
    /\ gen.shots[2].config.debug = "true"
    /\ gen.shots[2].config.path = <<"temp", "new">>
    /\ Config(2).debug = "false"
    /\ Config(2).path # <<"temp", "new">>

\* the steps a comparison has behind it, by the step it waits in
StepsInOrder(job) ==
    /\ job.step = "imgDiff" => ~job.polled /\ ~job.composerCalled /\ ~job.unlinkCalled
    /\ job.step = "fileExists" => job.polled /\ ~job.composerCalled /\ ~job.unlinkCalled
    /\ job.step \in {"createDiffImage", "joinImages", "unsettled"} =>
           /\ job.polled /\ job.composerCalled /\ ~job.unlinkCalled
           /\ job.step # "unsettled" => TempFile(job) \in disk
    /\ job.step = "resolved" =>
           job.polled /\ job.unlinkCalled /\ TempFile(job) \notin disk
    /\ job.unlinkCalled => job.step \in {"resolved", "rejected"}

\* C36: within one comparison of a compareImages call the steps are ordered.
\* The poll for the temp file starts in the step in which the differ
\* resolves; the Diff Composer is called only by a poll that found the temp
\* file; while the composer runs the temp file stays on disk; the temp file
\* is deleted only in the step in which diffImages resolves, which for a
\* comparison that called the composer is the step in which the composer
\* resolves.
C36_StepsOfAComparisonInOrder ==
    /\ [](pc = "comparing" => \A j \in JobIds : StepsInOrder(jobs[j]))
    /\ [][pc = "comparing" =>
            \A j \in JobIds :
                /\ (~jobs[j].polled /\ jobs'[j].polled) =>
                       jobs[j].step = "imgDiff" /\ jobs'[j].step = "fileExists"
                /\ (~jobs[j].composerCalled /\ jobs'[j].composerCalled) =>
                       /\ jobs[j].step = "fileExists"
                       /\ jobs[j].seen
                       /\ TempFile(jobs[j]) \in disk
                       /\ jobs'[j].step = "createDiffImage"
                /\ (TempFile(jobs[j]) \in disk /\ TempFile(jobs[j]) \notin disk') =>
                       /\ jobs[j].step = IF jobs[j].composerCalled
                                         THEN "joinImages" ELSE "fileExists"
                       /\ ~jobs[j].unlinkCalled /\ jobs'[j].unlinkCalled
                       /\ jobs'[j].step = "resolved"]_vars

\* a comparison of different images that went through every step: polled,
\* composed, temp file deleted, resolved
C36_Witness ==
    /\ pc = "comparing"
    /\ \E j \in JobIds :
           /\ jobs[j].step = "resolved"
           /\ jobs[j].polled
           /\ jobs[j].composerCalled
           /\ jobs[j].unlinkCalled
           /\ jobs[j].tempWrite = "done"
           /\ ~jobs[j].value.imagesAreSame
           /\ TempFile(jobs[j]) \notin disk


====
